---- MODULE Spec2Model ----
(***************************************************************************)
(* Model of the shopping cart of src/src/context/CartContext.jsx: the      *)
(* reducer cartReducer, the operations addToCart, removeFromCart,          *)
(* updateQuantity and clearCart built on it by CartProvider, and the       *)
(* derived value cartTotal that CartProvider recomputes on every render.   *)
(*                                                                         *)
(* A cart line is the record the reducer builds: the product's id, the     *)
(* unit price, the isOnSale flag and the quantity.  The other fields the   *)
(* spread { ...action.payload } copies into a line (name, image,           *)
(* salePrice, onSaleQuantity) are never read back by the reducer or by     *)
(* cartTotal and are left out.  Prices are whole numbers of currency       *)
(* units.                                                                  *)
(*                                                                         *)
(* Model of the image file storage of src/server/utils/fileStorage.js:    *)
(* the path helpers, deleteProductImage, deleteMultipleProductImages and   *)
(* replaceProductImage over the set of files on disk.  A relative path is  *)
(* the list of its segments ('/images/products/uploads/a.jpg' is           *)
(* <<"images", "products", "uploads", "a.jpg">>), null and '' are kept     *)
(* apart from it; a file on disk is <<directory, filename>> below          *)
(* public/images/products.  An unlink fails when the environment refuses   *)
(* it (the files of the set `failing`) or when the file is not there.      *)
(***************************************************************************)
EXTENDS Integers, Sequences, FiniteSets, TLC

\* ---------------------------------------------------------------- bounds

\* Largest quantity a cart line takes in the model.
MaxQty == 2

\* Largest onSaleQuantity a product snapshot carries in the model.
MaxCap == 2

\* The product ids of the catalogue.
Ids == {1, 2}

\* The products of which a later snapshot reaches the cart.
RefetchedIds == {1}

\* (regular price, sale price) a snapshot of a product can carry.  The first
\* pair is what the catalogue holds initially, the second what a later fetch
\* of the same product may bring.
PricePairs == {<<100, 80>>, <<120, 90>>}

InitialPricePair == <<100, 80>>

\* The product snapshots the pages hand to addToCart: the fields that
\* ADD_ITEM destructures from action.payload.
SnapshotsOf(id, pairs) ==
    { [id |-> id, price |-> pp[1], salePrice |-> pp[2],
       isOnSale |-> b, onSaleQuantity |-> n] :
         pp \in pairs, b \in BOOLEAN, n \in 0..MaxCap }

\* Arguments the model passes to updateQuantity.
Quantities == (-1)..MaxQty

\* ----------------------------------------------------------------- state

VARIABLES
    cartItems,  \* useReducer state: the list of cart lines
    cartTotal,  \* the cartTotal of the last render of CartProvider
    products,   \* the snapshot of each product the pages currently hold
    lastOp,     \* history: the operation of the last step, its arguments and
                \* the number of lines it removed
    adds,       \* history: addToCart calls per product since it last had no line
    onlyAdds,   \* history: only addToCart has touched the product's lines since then
    refetched   \* history: a line of the product was added from a snapshot other than products[id]

cartVars == <<cartItems, cartTotal, products, lastOp, adds, onlyAdds, refetched>>

VARIABLES
    files,        \* the files on disk below public/images/products
    directories,  \* the image directories that exist on disk
    db,           \* the row of the products table the requests are about
    call,         \* history: the last call of the storage module, the files it
                  \* found, the unlinks the environment refused and its result
    pc,           \* concurrent calls and requests: where each of them is
    outcome       \* concurrent calls and requests: the locals and the result of each

storageVars == <<files, directories, db, call, pc, outcome>>

vars == <<cartVars, storageVars>>

\* ------------------------------------------------------------ cartReducer

\* Array.prototype.find, as the index of the first match (0: undefined).
\* state.find(item => item.id === id && item.isOnSale)
FindSale(state, id) ==
    IF \E i \in 1..Len(state) : state[i].id = id /\ state[i].isOnSale
    THEN CHOOSE i \in 1..Len(state) :
            /\ state[i].id = id /\ state[i].isOnSale
            /\ \A j \in 1..(i - 1) : ~(state[j].id = id /\ state[j].isOnSale)
    ELSE 0

\* Mutation of FindRegular: the lookup of the regular line never finds it.
FindRegularNever(state, id) == 0

\* state.find(item => item.id === id && !item.isOnSale)
FindRegular(state, id) ==
    IF \E i \in 1..Len(state) : state[i].id = id /\ ~state[i].isOnSale
    THEN CHOOSE i \in 1..Len(state) :
            /\ state[i].id = id /\ ~state[i].isOnSale
            /\ \A j \in 1..(i - 1) : ~(state[j].id = id /\ ~state[j].isOnSale)
    ELSE 0

\* Mutation of IncrementLines: the pricing bucket is not compared.
IncrementLinesOfProduct(state, id, sale) ==
    [i \in 1..Len(state) |->
        IF state[i].id = id
        THEN [state[i] EXCEPT !.quantity = @ + 1]
        ELSE state[i]]

\* state.map(item => item.id === id && item.isOnSale === sale
\*                     ? { ...item, quantity: item.quantity + 1 } : item)
IncrementLines(state, id, sale) ==
    [i \in 1..Len(state) |->
        IF state[i].id = id /\ state[i].isOnSale = sale
        THEN [state[i] EXCEPT !.quantity = @ + 1]
        ELSE state[i]]

\* Mutation of NewSaleLine: the price is not overridden by salePrice.
NewSaleLineAtRegularPrice(payload) ==
    [id |-> payload.id, price |-> payload.price, isOnSale |-> TRUE,
     quantity |-> 1]

\* { ...action.payload, price: salePrice, isOnSale: true, quantity: 1 }
NewSaleLine(payload) ==
    [id |-> payload.id, price |-> payload.salePrice, isOnSale |-> TRUE,
     quantity |-> 1]

\* Mutation of NewRegularLine: the line takes the sale price.
NewRegularLineAtSalePrice(payload) ==
    [id |-> payload.id, price |-> payload.salePrice, isOnSale |-> FALSE,
     quantity |-> 1]

\* { ...action.payload, isOnSale: false, price, quantity: 1 }
\* { ...action.payload, isOnSale: false, quantity: 1 }
NewRegularLine(payload) ==
    [id |-> payload.id, price |-> payload.price, isOnSale |-> FALSE,
     quantity |-> 1]

\* Mutation of CanAddAtSalePrice: the cap is compared with <=.
CanAddAtSalePriceOffByOne(item, payload) == item.quantity <= payload.onSaleQuantity

\* existingSaleItem.quantity < onSaleQuantity
CanAddAtSalePrice(item, payload) == item.quantity < payload.onSaleQuantity

\* case 'ADD_ITEM'
AddItem(state, payload) ==
    LET id == payload.id
        existingSaleItem == FindSale(state, id)
        existingRegularItem == FindRegular(state, id)
    IN  IF payload.isOnSale /\ payload.onSaleQuantity > 0
        THEN IF existingSaleItem # 0
             THEN IF CanAddAtSalePrice(state[existingSaleItem], payload)
                  THEN IncrementLines(state, id, TRUE)
                  ELSE IF existingRegularItem # 0
                       THEN IncrementLines(state, id, FALSE)
                       ELSE Append(state, NewRegularLine(payload))
             ELSE Append(state, NewSaleLine(payload))
        ELSE IF existingRegularItem # 0
             THEN IncrementLines(state, id, FALSE)
             ELSE Append(state, NewRegularLine(payload))

\* Mutation of RemoveItem: only the regular-priced lines of the product go.
RECURSIVE RemoveRegularItem(_, _)
RemoveRegularItem(state, id) ==
    IF state = <<>> THEN <<>>
    ELSE IF Head(state).id # id \/ Head(state).isOnSale
         THEN <<Head(state)>> \o RemoveRegularItem(Tail(state), id)
         ELSE RemoveRegularItem(Tail(state), id)

\* case 'REMOVE_ITEM': state.filter(item => item.id !== action.payload)
RECURSIVE RemoveItem(_, _)
RemoveItem(state, id) ==
    IF state = <<>> THEN <<>>
    ELSE IF Head(state).id # id
         THEN <<Head(state)>> \o RemoveItem(Tail(state), id)
         ELSE RemoveItem(Tail(state), id)

\* Mutation of UPDATE_QUANTITY: only the regular-priced lines take the quantity.
UpdateQuantityRegularOnly(state, payload) ==
    [i \in 1..Len(state) |->
        IF state[i].id = payload.id /\ ~state[i].isOnSale
        THEN [state[i] EXCEPT !.quantity = payload.quantity]
        ELSE state[i]]

\* case 'UPDATE_QUANTITY'
UpdateQuantityItem(state, payload) ==
    [i \in 1..Len(state) |->
        IF state[i].id = payload.id
        THEN [state[i] EXCEPT !.quantity = payload.quantity]
        ELSE state[i]]

cartReducer(state, action) ==
    CASE action.type = "ADD_ITEM" -> AddItem(state, action.payload)
      [] action.type = "REMOVE_ITEM" -> RemoveItem(state, action.payload)
      [] action.type = "UPDATE_QUANTITY" -> UpdateQuantityItem(state, action.payload)
      [] action.type = "CLEAR_CART" -> <<>>
      [] OTHER -> state

\* ----------------------------------------------------------- CartProvider

\* The state each operation of CartProvider leaves, from the state it finds.
addToCart(state, product) ==
    cartReducer(state, [type |-> "ADD_ITEM", payload |-> product])

removeFromCart(state, productId) ==
    cartReducer(state, [type |-> "REMOVE_ITEM", payload |-> productId])

\* Mutation of updateQuantity: the guard is quantity < 0.
updateQuantityBelowZero(state, productId, quantity) ==
    IF quantity < 0
    THEN removeFromCart(state, productId)
    ELSE cartReducer(state, [type |-> "UPDATE_QUANTITY",
                             payload |-> [id |-> productId, quantity |-> quantity]])

\* Mutation of updateQuantity: the guard is missing.
updateQuantityUnguarded(state, productId, quantity) ==
    cartReducer(state, [type |-> "UPDATE_QUANTITY",
                        payload |-> [id |-> productId, quantity |-> quantity]])

updateQuantity(state, productId, quantity) ==
    IF quantity < 1
    THEN removeFromCart(state, productId)
    ELSE cartReducer(state, [type |-> "UPDATE_QUANTITY",
                             payload |-> [id |-> productId, quantity |-> quantity]])

clearCart(state) ==
    cartReducer(state, [type |-> "CLEAR_CART"])

\* Mutation of Reduce: the quantity is left out of the sum.
RECURSIVE ReduceWithoutQuantity(_, _)
ReduceWithoutQuantity(items, total) ==
    IF items = <<>> THEN total
    ELSE ReduceWithoutQuantity(Tail(items), total + Head(items).price)

\* cartItems.reduce((total, item) => total + item.price * item.quantity, 0)
RECURSIVE Reduce(_, _)
Reduce(items, total) ==
    IF items = <<>> THEN total
    ELSE Reduce(Tail(items), total + Head(items).price * Head(items).quantity)

CartTotalOf(items) == Reduce(items, 0)

\* --------------------------------------------------------------- helpers

HasLine(state, id) == \E i \in 1..Len(state) : state[i].id = id

WithinBound(state) == \A i \in 1..Len(state) : state[i].quantity <= MaxQty

\* The product field of lastOp for an operation that takes no product.
NoProduct ==
    [id |-> 0, price |-> 0, salePrice |-> 0, isOnSale |-> FALSE, onSaleQuantity |-> 0]

Op(op, id, n, product) ==
    [op |-> op, id |-> id, n |-> n, product |-> product,
     removed |-> IF Len(cartItems') < Len(cartItems)
                 THEN Len(cartItems) - Len(cartItems') ELSE 0]

NoOp == [op |-> "none", id |-> 0, n |-> 0, product |-> NoProduct, removed |-> 0]

\* ------------------------------------------------------- fileStorage.js

\* The filenames of the model.
Names == {"a.jpg", "b.jpg"}

\* The directories of PRODUCT_IMAGES_UPLOADS_DIR and
\* PRODUCT_IMAGES_THUMBNAILS_DIR below PRODUCT_IMAGES_BASE_DIR.
Dirs == {"uploads", "thumbnails"}

\* Every file the model can hold on disk.
AllFiles == Dirs \X Names

\* A relative path as a caller passes it: null (or undefined), or a string
\* given by its segments ('' has none).
NullPath == [null |-> TRUE, segments |-> <<>>]

StringPath(segments) == [null |-> FALSE, segments |-> segments]

EmptyPath == StringPath(<<>>)

\* Paths that do not start with '/images/products/'.
InvalidPaths ==
    { StringPath(<<"invalid-path">>), StringPath(<<"images", "uploads", "a.jpg">>) }

\* Paths that start with '/images/products/'.
ValidPaths ==
    { StringPath(<<"images", "products", d, n>>) : d \in Dirs, n \in Names }

\* The relative paths the model passes to the storage module.
Paths == {NullPath, EmptyPath} \cup InvalidPaths \cup ValidPaths

\* !relativePath
Falsy(relativePath) == relativePath.null \/ relativePath.segments = <<>>

\* relativePath.startsWith('/images/products/')
StartsWithProductsPrefix(relativePath) ==
    /\ Len(relativePath.segments) >= 3
    /\ relativePath.segments[1] = "images"
    /\ relativePath.segments[2] = "products"

\* The null that extractFilenameFromPath returns; like null, '' is falsy.
NoFilename == ""

\* Mutation of extractFilenameFromPath: the prefix is not validated.
extractFilenameUnvalidated(relativePath) ==
    IF Falsy(relativePath) THEN NoFilename
    ELSE relativePath.segments[Len(relativePath.segments)]

\* path.basename(relativePath) behind the null and prefix checks
extractFilenameFromPath(relativePath) ==
    IF Falsy(relativePath) THEN NoFilename
    ELSE IF ~StartsWithProductsPrefix(relativePath) THEN NoFilename
    ELSE relativePath.segments[Len(relativePath.segments)]

\* Mutation of getRelativeImagePath: thumbnails are placed below '/images/'.
getRelativeImagePathUnrooted(filename, type) ==
    IF type = "thumbnail"
    THEN StringPath(<<"images", "thumbnails">> \o filename)
    ELSE StringPath(<<"images", "products", "uploads">> \o filename)

\* `/images/products/uploads/${filename}`: the filename is a string given by
\* its segments, <<"a.jpg">> for 'a.jpg', <<>> for '' and <<"x", "a.jpg">> for
\* 'x/a.jpg'.
getRelativeImagePath(filename, type) ==
    IF type = "thumbnail"
    THEN StringPath(<<"images", "products", "thumbnails">> \o filename)
    ELSE StringPath(<<"images", "products", "uploads">> \o filename)

getAbsoluteImagePath(filename, type) ==
    IF type = "thumbnail"
    THEN <<"thumbnails", filename>>
    ELSE <<"uploads", filename>>

\* The messages of the storage module.  The error.message a failed unlink
\* appends after the colon is left out.
InvalidImagePath == "Invalid image path provided"

FailedOriginal == "Failed to delete original image"

FailedThumbnail == "Failed to delete thumbnail image"

NewPathRequired == "New image path is required"

InvalidNewPath == "Invalid new image path provided"

NewFileMissing == "New image file does not exist"

\* const result = { success: true, deletedFiles: [], errors: [] }
NewDeletionResult == [success |-> TRUE, deletedFiles |-> <<>>, errors |-> <<>>]

\* try { if (fs.existsSync(path)) { await fs.promises.unlink(path);
\*   result.deletedFiles.push(path) } } catch (error) { result.errors.push(...);
\*   result.success = false }
\* on the pair st of the disk and the result so far, run without another
\* call in between; the environment refuses the unlink of the files in failing.
UnlinkIfExists(st, path, failing, message) ==
    IF path \in st.files
    THEN IF path \in failing
         THEN [files |-> st.files,
               result |-> [st.result EXCEPT !.errors = Append(@, message),
                                            !.success = FALSE]]
         ELSE [files |-> st.files \ {path},
               result |-> [st.result EXCEPT !.deletedFiles = Append(@, path)]]
    ELSE st

\* Mutation of deleteProductImage: a failed unlink of the original ends the call.
deleteProductImageAborting(disk, relativePath, failing) ==
    IF Falsy(relativePath)
    THEN [files |-> disk, result |-> NewDeletionResult]
    ELSE LET filename == extractFilenameFromPath(relativePath)
         IN  IF filename = NoFilename
             THEN [files |-> disk,
                   result |-> [NewDeletionResult EXCEPT
                                 !.errors = <<InvalidImagePath>>, !.success = FALSE]]
             ELSE LET afterOriginal ==
                          UnlinkIfExists([files |-> disk, result |-> NewDeletionResult],
                                         getAbsoluteImagePath(filename, "original"),
                                         failing, FailedOriginal)
                  IN  IF ~afterOriginal.result.success
                      THEN afterOriginal
                      ELSE UnlinkIfExists(afterOriginal,
                                          getAbsoluteImagePath(filename, "thumbnail"),
                                          failing, FailedThumbnail)

\* Mutation of deleteProductImage: the thumbnail is left on disk.
deleteProductImageOriginalOnly(disk, relativePath, failing) ==
    IF Falsy(relativePath)
    THEN [files |-> disk, result |-> NewDeletionResult]
    ELSE LET filename == extractFilenameFromPath(relativePath)
         IN  IF filename = NoFilename
             THEN [files |-> disk,
                   result |-> [NewDeletionResult EXCEPT
                                 !.errors = <<InvalidImagePath>>, !.success = FALSE]]
             ELSE UnlinkIfExists([files |-> disk, result |-> NewDeletionResult],
                                 getAbsoluteImagePath(filename, "original"),
                                 failing, FailedOriginal)

\* deleteProductImage run without another call in between: the disk it
\* leaves and the result it returns.
deleteProductImage(disk, relativePath, failing) ==
    IF Falsy(relativePath)
    THEN [files |-> disk, result |-> NewDeletionResult]
    ELSE LET filename == extractFilenameFromPath(relativePath)
         IN  IF filename = NoFilename
             THEN [files |-> disk,
                   result |-> [NewDeletionResult EXCEPT
                                 !.errors = <<InvalidImagePath>>, !.success = FALSE]]
             ELSE LET originalPath == getAbsoluteImagePath(filename, "original")
                      thumbnailPath == getAbsoluteImagePath(filename, "thumbnail")
                      afterOriginal ==
                          UnlinkIfExists([files |-> disk, result |-> NewDeletionResult],
                                         originalPath, failing, FailedOriginal)
                  IN  UnlinkIfExists(afterOriginal, thumbnailPath, failing,
                                     FailedThumbnail)

\* The files a deleteProductImage(relativePath) call looks for.
TargetsOf(relativePath) ==
    LET filename == extractFilenameFromPath(relativePath)
    IN  IF filename = NoFilename THEN {}
        ELSE { getAbsoluteImagePath(filename, "original"),
               getAbsoluteImagePath(filename, "thumbnail") }

\* The null of the absolutePath field of validateImageExists.
NoAbsolutePath == <<>>

\* The messages of validateImageExists.
NoPathProvided == "No image path provided"

InvalidPathFormat == "Invalid image path format"

FileMissing == "Image file does not exist"

\* const result = { exists: false, filename: null, absolutePath: null }
NewValidationResult ==
    [exists |-> FALSE, filename |-> NoFilename, absolutePath |-> NoAbsolutePath]

\* result.error = message: the result gets an error field.
WithError(result, message) ==
    [f \in DOMAIN result \cup {"error"} |-> IF f = "error" THEN message ELSE result[f]]

\* Mutation of validateImageExists: the thumbnail is looked for.
validateThumbnailExists(disk, relativePath) ==
    IF Falsy(relativePath)
    THEN WithError(NewValidationResult, NoPathProvided)
    ELSE LET filename == extractFilenameFromPath(relativePath)
         IN  IF filename = NoFilename
             THEN WithError(NewValidationResult, InvalidPathFormat)
             ELSE LET absolutePath == getAbsoluteImagePath(filename, "thumbnail")
                      found == [NewValidationResult EXCEPT !.filename = filename,
                                                           !.absolutePath = absolutePath]
                  IN  IF absolutePath \in disk
                      THEN [found EXCEPT !.exists = TRUE]
                      ELSE WithError(found, FileMissing)

\* validateImageExists: the result it returns; it calls nothing that writes.
validateImageExists(disk, relativePath) ==
    IF Falsy(relativePath)
    THEN WithError(NewValidationResult, NoPathProvided)
    ELSE LET filename == extractFilenameFromPath(relativePath)
         IN  IF filename = NoFilename
             THEN WithError(NewValidationResult, InvalidPathFormat)
             ELSE LET absolutePath == getAbsoluteImagePath(filename, "original")
                      found == [NewValidationResult EXCEPT !.filename = filename,
                                                           !.absolutePath = absolutePath]
                  IN  IF absolutePath \in disk
                      THEN [found EXCEPT !.exists = TRUE]
                      ELSE WithError(found, FileMissing)

\* const overallResult = { success: true, totalDeleted: 0, totalErrors: 0,
\*                         results: [] }
NewOverallResult ==
    [success |-> TRUE, totalDeleted |-> 0, totalErrors |-> 0, results |-> <<>>]

\* The argument of deleteMultipleProductImages: an array of relative paths, or
\* something Array.isArray rejects (null, undefined, a string, an object).
ArrayOf(paths) == [isArray |-> TRUE, paths |-> paths]

NotAnArray == [isArray |-> FALSE, paths |-> <<>>]

\* One turn of the for loop of deleteMultipleProductImages on the pair st of the
\* disk and the overallResult so far.
DeleteNext(st, relativePath, failing) ==
    LET deleted == deleteProductImage(st.files, relativePath, failing)
        result == deleted.result
    IN  [files |-> deleted.files,
         result |-> [success |-> st.result.success /\ result.success,
                     totalDeleted |-> st.result.totalDeleted + Len(result.deletedFiles),
                     totalErrors |-> st.result.totalErrors + Len(result.errors),
                     results |-> Append(st.result.results,
                                        [path |-> relativePath,
                                         success |-> result.success,
                                         deletedFiles |-> result.deletedFiles,
                                         errors |-> result.errors])]]

RECURSIVE DeleteEach(_, _, _)
\* for (const relativePath of relativePaths) { ... }
DeleteEach(st, relativePaths, failing) ==
    IF relativePaths = <<>> THEN st
    ELSE DeleteEach(DeleteNext(st, Head(relativePaths), failing),
                    Tail(relativePaths), failing)

RECURSIVE DeleteUntilFailure(_, _, _)
\* The for loop, left at the first path whose deletion fails.
DeleteUntilFailure(st, relativePaths, failing) ==
    IF relativePaths = <<>> \/ ~st.result.success THEN st
    ELSE DeleteUntilFailure(DeleteNext(st, Head(relativePaths), failing),
                            Tail(relativePaths), failing)

\* Mutation of deleteMultipleProductImages: the first failure ends the loop.
deleteMultipleStopping(disk, relativePaths, failing) ==
    IF ~relativePaths.isArray \/ Len(relativePaths.paths) = 0
    THEN [files |-> disk, result |-> NewOverallResult]
    ELSE DeleteUntilFailure([files |-> disk, result |-> NewOverallResult],
                            relativePaths.paths, failing)

deleteMultipleProductImages(disk, relativePaths, failing) ==
    IF ~relativePaths.isArray \/ Len(relativePaths.paths) = 0
    THEN [files |-> disk, result |-> NewOverallResult]
    ELSE DeleteEach([files |-> disk, result |-> NewOverallResult],
                    relativePaths.paths, failing)

\* const result = { success: true, newImagePath, oldImageCleanup: { attempted:
\*   false, success: false, deletedFiles: [], errors: [] }, errors: [] }
NewReplacementResult(newImagePath) ==
    [success |-> TRUE,
     newImagePath |-> newImagePath,
     oldImageCleanup |-> [attempted |-> FALSE, success |-> FALSE,
                          deletedFiles |-> <<>>, errors |-> <<>>],
     errors |-> <<>>]

\* result.errors.push(message); result.success = false; return result
RejectedReplacement(disk, newImagePath, message) ==
    [files |-> disk,
     result |-> [NewReplacementResult(newImagePath) EXCEPT
                   !.errors = <<message>>, !.success = FALSE]]

\* The replacement whose old image cleanup returned deleted.
CleanedReplacement(newImagePath, deleted) ==
    [files |-> deleted.files,
     result |-> [NewReplacementResult(newImagePath) EXCEPT
                   !.oldImageCleanup = [attempted |-> TRUE,
                                        success |-> deleted.result.success,
                                        deletedFiles |-> deleted.result.deletedFiles,
                                        errors |-> deleted.result.errors]]]

\* Mutation of replaceProductImage: the errors of the cleanup are copied into
\* the errors of the result as well.
replaceCopyingErrors(disk, oldImagePath, newImagePath, failing) ==
    IF Falsy(newImagePath)
    THEN RejectedReplacement(disk, newImagePath, NewPathRequired)
    ELSE LET newFilename == extractFilenameFromPath(newImagePath)
         IN  IF newFilename = NoFilename
             THEN RejectedReplacement(disk, newImagePath, InvalidNewPath)
             ELSE IF getAbsoluteImagePath(newFilename, "original") \notin disk
             THEN RejectedReplacement(disk, newImagePath, NewFileMissing)
             ELSE IF ~Falsy(oldImagePath) /\ oldImagePath # newImagePath
             THEN LET deleted == deleteProductImage(disk, oldImagePath, failing)
                      cleaned == CleanedReplacement(newImagePath, deleted)
                  IN  [cleaned EXCEPT !.result.errors = deleted.result.errors]
             ELSE [files |-> disk, result |-> NewReplacementResult(newImagePath)]

\* Mutation of replaceProductImage: a failed cleanup fails the replacement.
replaceFailingWithCleanup(disk, oldImagePath, newImagePath, failing) ==
    IF Falsy(newImagePath)
    THEN RejectedReplacement(disk, newImagePath, NewPathRequired)
    ELSE LET newFilename == extractFilenameFromPath(newImagePath)
         IN  IF newFilename = NoFilename
             THEN RejectedReplacement(disk, newImagePath, InvalidNewPath)
             ELSE IF getAbsoluteImagePath(newFilename, "original") \notin disk
             THEN RejectedReplacement(disk, newImagePath, NewFileMissing)
             ELSE IF ~Falsy(oldImagePath) /\ oldImagePath # newImagePath
             THEN LET deleted == deleteProductImage(disk, oldImagePath, failing)
                      cleaned == CleanedReplacement(newImagePath, deleted)
                  IN  [cleaned EXCEPT !.result.success = deleted.result.success]
             ELSE [files |-> disk, result |-> NewReplacementResult(newImagePath)]

\* Mutation of replaceProductImage: the old image is cleaned up before the new
\* one is validated.
replaceCleaningFirst(disk, oldImagePath, newImagePath, failing) ==
    LET deleted == IF ~Falsy(oldImagePath) /\ oldImagePath # newImagePath
                   THEN deleteProductImage(disk, oldImagePath, failing)
                   ELSE [files |-> disk, result |-> NewDeletionResult]
    IN  IF Falsy(newImagePath)
        THEN RejectedReplacement(deleted.files, newImagePath, NewPathRequired)
        ELSE LET newFilename == extractFilenameFromPath(newImagePath)
             IN  IF newFilename = NoFilename
                 THEN RejectedReplacement(deleted.files, newImagePath, InvalidNewPath)
                 ELSE IF getAbsoluteImagePath(newFilename, "original") \notin deleted.files
                 THEN RejectedReplacement(deleted.files, newImagePath, NewFileMissing)
                 ELSE IF ~Falsy(oldImagePath) /\ oldImagePath # newImagePath
                 THEN CleanedReplacement(newImagePath, deleted)
                 ELSE [files |-> disk, result |-> NewReplacementResult(newImagePath)]

\* Mutation of replaceProductImage: the old path is not compared with the new.
replaceWithoutComparison(disk, oldImagePath, newImagePath, failing) ==
    IF Falsy(newImagePath)
    THEN RejectedReplacement(disk, newImagePath, NewPathRequired)
    ELSE LET newFilename == extractFilenameFromPath(newImagePath)
         IN  IF newFilename = NoFilename
             THEN RejectedReplacement(disk, newImagePath, InvalidNewPath)
             ELSE IF getAbsoluteImagePath(newFilename, "original") \notin disk
             THEN RejectedReplacement(disk, newImagePath, NewFileMissing)
             ELSE IF ~Falsy(oldImagePath)
             THEN CleanedReplacement(newImagePath,
                                     deleteProductImage(disk, oldImagePath, failing))
             ELSE [files |-> disk, result |-> NewReplacementResult(newImagePath)]

\* replaceProductImage run without another call in between: the disk it
\* leaves and the result it returns.
replaceProductImage(disk, oldImagePath, newImagePath, failing) ==
    IF Falsy(newImagePath)
    THEN RejectedReplacement(disk, newImagePath, NewPathRequired)
    ELSE LET newFilename == extractFilenameFromPath(newImagePath)
         IN  IF newFilename = NoFilename
             THEN RejectedReplacement(disk, newImagePath, InvalidNewPath)
             ELSE IF getAbsoluteImagePath(newFilename, "original") \notin disk
             THEN RejectedReplacement(disk, newImagePath, NewFileMissing)
             ELSE IF ~Falsy(oldImagePath) /\ oldImagePath # newImagePath
             THEN CleanedReplacement(newImagePath,
                                     deleteProductImage(disk, oldImagePath, failing))
             ELSE [files |-> disk, result |-> NewReplacementResult(newImagePath)]

\* ------------------------------------------------------------------ Init

\* The largest array the model passes to deleteMultipleProductImages.
MaxBatch == 2

\* The paths of those arrays.
BatchPaths ==
    { NullPath, StringPath(<<"invalid-path">>),
      StringPath(<<"images", "products", "uploads", "a.jpg">>),
      StringPath(<<"images", "products", "uploads", "b.jpg">>) }

\* The arguments the model passes to deleteMultipleProductImages.
Batches ==
    {NotAnArray} \cup
    { ArrayOf(paths) : paths \in UNION { [1..n -> BatchPaths] : n \in 0..MaxBatch } }

\* The two requests whose deleteProductImage calls run concurrently.
Procs == {"first", "second"}

\* The previous field of a call that does not repeat the call before it.
NoPrevious == [same |-> FALSE, result |-> NewDeletionResult]

\* The call record of a storage module that has not been called.
NoCall ==
    [op |-> "none", oldPath |-> NullPath, path |-> NullPath, paths |-> NotAnArray,
     before |-> {}, failing |-> {}, result |-> NewDeletionResult,
     previous |-> NoPrevious, filename |-> <<>>, type |-> "original",
     stock |-> 0, sold |-> 0]

\* No deleteProductImage call is running.
NoneRunning ==
    /\ pc = [p \in Procs |-> "idle"]
    /\ outcome = [p \in Procs |-> NewDeletionResult]

\* The elements of a list.
Range(list) == { list[i] : i \in 1..Len(list) }

\* PRODUCT_IMAGES_BASE_DIR and the two directories below it.
ImageDirectories == <<"base", "uploads", "thumbnails">>

\* The products table without the row the requests are about.
NoRow == [exists |-> FALSE, image |-> NullPath, onSaleQuantity |-> 0]

\* The server once its directories exist, before any row is looked at.
ServerIdle ==
    /\ directories = Range(ImageDirectories)
    /\ db = NoRow

\* The server's image directories as the cart sees them: not at all.
StorageAtRest ==
    /\ files = {}
    /\ directories = {}
    /\ db = NoRow
    /\ call = NoCall
    /\ NoneRunning

Init ==
    /\ StorageAtRest
    /\ cartItems = <<>>
    /\ cartTotal = CartTotalOf(<<>>)
    /\ products \in { f \in [Ids -> UNION { SnapshotsOf(i, {InitialPricePair}) : i \in Ids }] :
                        \A i \in Ids : f[i].id = i }
    /\ lastOp = NoOp
    /\ adds = [i \in Ids |-> 0]
    /\ onlyAdds = [i \in Ids |-> TRUE]
    /\ refetched = [i \in Ids |-> FALSE]

\* --------------------------------------------------------------- actions

\* A page calls addToCart(product) with the snapshot it holds.
AddToCart(id) ==
    /\ cartItems' = addToCart(cartItems, products[id])
    /\ WithinBound(cartItems')
    /\ cartTotal' = CartTotalOf(cartItems')
    /\ lastOp' = Op("add", id, 0, products[id])
    /\ adds' = [adds EXCEPT ![id] = IF onlyAdds[id] /\ ~refetched[id] THEN @ + 1 ELSE 0]
    /\ UNCHANGED <<products, onlyAdds, refetched, storageVars>>

RemoveFromCart(id) ==
    /\ cartItems' = removeFromCart(cartItems, id)
    /\ cartTotal' = CartTotalOf(cartItems')
    /\ lastOp' = Op("remove", id, 0, NoProduct)
    /\ adds' = [adds EXCEPT ![id] = 0]
    /\ onlyAdds' = [onlyAdds EXCEPT ![id] = TRUE]
    /\ refetched' = [refetched EXCEPT ![id] = FALSE]
    /\ UNCHANGED <<products, storageVars>>

UpdateQuantity(id, n) ==
    /\ cartItems' = updateQuantity(cartItems, id, n)
    /\ cartTotal' = CartTotalOf(cartItems')
    /\ lastOp' = Op("update", id, n, NoProduct)
    /\ adds' = [adds EXCEPT ![id] = 0]
    /\ onlyAdds' = [onlyAdds EXCEPT ![id] = ~HasLine(cartItems', id)]
    /\ refetched' = [refetched EXCEPT ![id] = @ /\ HasLine(cartItems', id)]
    /\ UNCHANGED <<products, storageVars>>

ClearCart ==
    /\ cartItems' = clearCart(cartItems)
    /\ cartTotal' = CartTotalOf(cartItems')
    /\ lastOp' = Op("clear", 0, 0, NoProduct)
    /\ adds' = [i \in Ids |-> 0]
    /\ onlyAdds' = [i \in Ids |-> TRUE]
    /\ refetched' = [i \in Ids |-> FALSE]
    /\ UNCHANGED <<products, storageVars>>

\* A page that mounted later (Homepage and ProductList each load the products
\* from the server when they mount) holds a newer snapshot of the product
\* than `products` and calls addToCart(product) with it.
AddToCartRefetched(id, snapshot) ==
    /\ snapshot # products[id]
    /\ cartItems' = addToCart(cartItems, snapshot)
    /\ WithinBound(cartItems')
    /\ cartTotal' = CartTotalOf(cartItems')
    /\ lastOp' = Op("add", id, 0, snapshot)
    /\ adds' = [adds EXCEPT ![id] = 0]
    /\ onlyAdds' = onlyAdds
    /\ refetched' = [refetched EXCEPT ![id] = TRUE]
    /\ UNCHANGED <<products, storageVars>>

Next ==
    \/ \E id \in Ids : AddToCart(id)
    \/ \E id \in Ids : RemoveFromCart(id)
    \/ \E id \in Ids, n \in Quantities : UpdateQuantity(id, n)
    \/ ClearCart

NextRefetch ==
    \/ Next
    \/ \E id \in RefetchedIds : \E snapshot \in SnapshotsOf(id, PricePairs) :
          AddToCartRefetched(id, snapshot)

Spec == Init /\ [][Next]_vars

\* The catalogue of SpecRefetch: the products of which no later snapshot
\* reaches the cart are plain regular-priced products.
InitRefetch ==
    /\ Init
    /\ \A i \in Ids \ RefetchedIds :
          ~products[i].isOnSale /\ products[i].onSaleQuantity = 0

SpecRefetch == InitRefetch /\ [][NextRefetch]_vars

\* ------------------------------------------------------ storage actions

\* The cart of a browser that has not touched it, next to the server.
CartAtRest ==
    /\ cartItems = <<>>
    /\ cartTotal = CartTotalOf(<<>>)
    /\ products = [i \in Ids |-> [id |-> i, price |-> InitialPricePair[1],
                                  salePrice |-> InitialPricePair[2],
                                  isOnSale |-> FALSE, onSaleQuantity |-> 0]]
    /\ lastOp = NoOp
    /\ adds = [i \in Ids |-> 0]
    /\ onlyAdds = [i \in Ids |-> TRUE]
    /\ refetched = [i \in Ids |-> FALSE]

\* The server starts with whatever earlier uploads left on disk.
InitStorage ==
    /\ CartAtRest
    /\ ServerIdle
    /\ files \in SUBSET AllFiles
    /\ call = NoCall
    /\ NoneRunning

\* The unlinks the environment can refuse during a call that looks for targets.
Refusals(targets) == SUBSET (targets \cap files)

\* A request awaits deleteProductImage(relativePath).  When the call before
\* it was deleteProductImage of the same path, call.previous keeps its result.
DeleteProductImage(relativePath, failing) ==
    LET done == deleteProductImage(files, relativePath, failing)
    IN  /\ files' = done.files
        /\ call' = [NoCall EXCEPT !.op = "delete", !.path = relativePath,
                                  !.before = files, !.failing = failing,
                                  !.result = done.result,
                                  !.previous =
                                     IF call.op = "delete" /\ call.path = relativePath
                                     THEN [same |-> TRUE, result |-> call.result]
                                     ELSE NoPrevious]
        /\ UNCHANGED <<cartVars, directories, db, pc, outcome>>

\* A request awaits deleteMultipleProductImages(relativePaths).
DeleteMultipleProductImages(relativePaths, failing) ==
    LET done == deleteMultipleProductImages(files, relativePaths, failing)
    IN  /\ files' = done.files
        /\ call' = [NoCall EXCEPT !.op = "deleteMultiple", !.paths = relativePaths,
                                  !.before = files, !.failing = failing,
                                  !.result = done.result]
        /\ UNCHANGED <<cartVars, directories, db, pc, outcome>>

\* A request awaits replaceProductImage(oldImagePath, newImagePath).
ReplaceProductImage(oldImagePath, newImagePath, failing) ==
    LET done == replaceProductImage(files, oldImagePath, newImagePath, failing)
    IN  /\ files' = done.files
        /\ call' = [NoCall EXCEPT !.op = "replace", !.oldPath = oldImagePath,
                                  !.path = newImagePath,
                                  !.before = files, !.failing = failing,
                                  !.result = done.result]
        /\ UNCHANGED <<cartVars, directories, db, pc, outcome>>

\* A request awaits validateImageExists(relativePath).
ValidateImageExists(relativePath) ==
    /\ call' = [NoCall EXCEPT !.op = "validate", !.path = relativePath,
                              !.before = files,
                              !.result = validateImageExists(files, relativePath)]
    /\ UNCHANGED <<cartVars, files, directories, db, pc, outcome>>

\* The filenames the model passes to getRelativeImagePath, by their segments:
\* '', two names without a path separator and one with.
Filenames == {<<>>, <<"a.jpg">>, <<"b.jpg">>, <<"x", "a.jpg">>}

\* The image variants.
Types == {"original", "thumbnail"}

\* The path getRelativeImagePath(filename, type) builds is stored and later
\* handed to extractFilenameFromPath.
ExtractFromRelativeImagePath(filename, type) ==
    LET relativePath == getRelativeImagePath(filename, type)
    IN  /\ call' = [NoCall EXCEPT !.op = "roundTrip", !.path = relativePath,
                                  !.filename = filename, !.type = type,
                                  !.before = files,
                                  !.result = [filename |->
                                                extractFilenameFromPath(relativePath)]]
        /\ UNCHANGED <<cartVars, files, directories, db, pc, outcome>>

\* extractFilenameFromPath(relativePath) is called on a path from a product record.
ExtractFilenameFromPath(relativePath) ==
    /\ call' = [NoCall EXCEPT !.op = "extract", !.path = relativePath,
                              !.before = files,
                              !.result = [filename |->
                                            extractFilenameFromPath(relativePath)]]
    /\ UNCHANGED <<cartVars, files, directories, db, pc, outcome>>

\* The targets of every path of an array.
BatchTargets(relativePaths) ==
    UNION { TargetsOf(relativePaths.paths[i]) : i \in 1..Len(relativePaths.paths) }

NextStorage ==
    \/ \E relativePath \in Paths : \E failing \in Refusals(TargetsOf(relativePath)) :
          DeleteProductImage(relativePath, failing)
    \/ \E relativePaths \in Batches : \E failing \in Refusals(BatchTargets(relativePaths)) :
          DeleteMultipleProductImages(relativePaths, failing)
    \/ \E oldImagePath \in Paths, newImagePath \in Paths :
          \E failing \in Refusals(TargetsOf(oldImagePath)) :
             ReplaceProductImage(oldImagePath, newImagePath, failing)
    \/ \E relativePath \in Paths : ValidateImageExists(relativePath)
    \/ \E filename \in Filenames, type \in Types :
          ExtractFromRelativeImagePath(filename, type)
    \/ \E relativePath \in Paths : ExtractFilenameFromPath(relativePath)

SpecStorage == InitStorage /\ [][NextStorage]_vars

\* ------------------------------------------ POST /api/products/purchase

\* The largest onSaleQuantity of the row before the first purchase.
MaxStock == 2

\* The largest quantity of a purchase request.
MaxUnits == 2

\* The rows the purchase requests can find: none, or one with some sale stock.
PurchaseRows ==
    {NoRow} \cup { [NoRow EXCEPT !.exists = TRUE, !.onSaleQuantity = n] :
                     n \in 0..MaxStock }

\* The locals of a process that has posted no purchase.
NoPurchase ==
    [quantity |-> 0, isOnSale |-> FALSE, status |-> 0, posted |-> 0, found |-> 0]

InitPurchase ==
    /\ CartAtRest
    /\ files = {}
    /\ directories = Range(ImageDirectories)
    /\ db \in PurchaseRows
    /\ call = [NoCall EXCEPT !.stock = db.onSaleQuantity]
    /\ pc = [p \in Procs |-> "idle"]
    /\ outcome = [p \in Procs |-> NoPurchase]

\* Mutation of the UPDATE statement: without AND onSaleQuantity >= ?.
purchaseUpdateUnguarded(row, quantity) ==
    IF row.exists
    THEN [row |-> [row EXCEPT !.onSaleQuantity = @ - quantity], changes |-> 1]
    ELSE [row |-> row, changes |-> 0]

\* UPDATE products SET onSaleQuantity = onSaleQuantity - ? WHERE id = ? AND
\* onSaleQuantity >= ?: the row it leaves and this.changes.
purchaseUpdate(row, quantity) ==
    IF row.exists /\ row.onSaleQuantity >= quantity
    THEN [row |-> [row EXCEPT !.onSaleQuantity = @ - quantity], changes |-> 1]
    ELSE [row |-> row, changes |-> 0]

\* The purchase record of the call history.
PurchaseAnswered(p, answer, sold, err) ==
    [call EXCEPT !.op = "purchase", !.result = answer, !.sold = @ + sold,
                 !.failing = IF err THEN {"database"} ELSE {}]

\* A client posts { id, quantity, isOnSale }.  A sale purchase hands its
\* UPDATE to the database; any other purchase is answered at once.
PostPurchase(p, quantity, isOnSale) ==
    LET request == [NoPurchase EXCEPT !.quantity = quantity, !.isOnSale = isOnSale,
                                      !.posted = db.onSaleQuantity]
    IN  /\ pc[p] = "idle"
        /\ IF isOnSale
           THEN /\ pc' = [pc EXCEPT ![p] = "update"]
                /\ outcome' = [outcome EXCEPT ![p] = request]
                /\ call' = call
           ELSE /\ pc' = pc
                /\ outcome' = [outcome EXCEPT ![p] = [request EXCEPT !.status = 200,
                                                        !.found = db.onSaleQuantity]]
                /\ call' = PurchaseAnswered(p, outcome'[p], 0, FALSE)
        /\ UNCHANGED <<cartVars, files, directories, db>>

\* The database runs the UPDATE of the request and the callback answers:
\* 500 on an error, 400 when no row changed, the success message otherwise.
RunPurchaseUpdate(p, err) ==
    LET updated == purchaseUpdate(db, outcome[p].quantity)
        status == IF err THEN 500 ELSE IF updated.changes = 0 THEN 400 ELSE 200
    IN  /\ pc[p] = "update"
        /\ db' = IF err THEN db ELSE updated.row
        /\ pc' = [pc EXCEPT ![p] = "idle"]
        /\ outcome' = [outcome EXCEPT ![p].status = status,
                                      ![p].found = db.onSaleQuantity]
        /\ call' = PurchaseAnswered(p, outcome'[p],
                                    IF status = 200 THEN outcome[p].quantity ELSE 0,
                                    err)
        /\ UNCHANGED <<cartVars, files, directories>>

NextPurchase ==
    \/ \E p \in Procs, quantity \in 1..MaxUnits, isOnSale \in BOOLEAN :
          PostPurchase(p, quantity, isOnSale)
    \/ \E p \in Procs, err \in BOOLEAN : RunPurchaseUpdate(p, err)

SpecPurchase == InitPurchase /\ [][NextPurchase]_vars

\* ------------------------------------------------- admin product routes

\* The requests the admins make in the model, all processes together.
MaxRequests == 2

\* The four routes of the model: POST /products/:id/image, PUT
\* /products/:id/image, PUT /products/:id with an image field and DELETE
\* /products/:id.
Kinds == {"upload", "replace", "update", "delete"}

\* generateUniqueFilename: the name multer gives the k-th upload of a process.
\* Date.now() and crypto.randomBytes(8) make it a name no other file has.
UploadNames ==
    [first |-> <<"first-1.jpg", "first-2.jpg", "first-3.jpg">>,
     second |-> <<"second-1.jpg", "second-2.jpg", "second-3.jpg">>]

\* The image path of the row before the first request.
InitialImage == StringPath(<<"images", "products", "uploads", "a.jpg">>)

\* The image values the model sends to PUT /products/:id.
UpdateImages == {NullPath, StringPath(<<"images", "products", "uploads", "b.jpg">>)}

\* The imageCleanup of a response before any cleanup.
NoCleanup == [attempted |-> FALSE, success |-> FALSE, deletedFiles |-> <<>>, errors |-> <<>>]

\* The locals of a process that has made no request.  deleted, updated,
\* faulted and refused are history: the files the request has unlinked,
\* whether its UPDATE (or DELETE) went through, whether an I/O operation of
\* it failed, and whether the unlink of cleanupFailedUpload was refused.
NoRequest ==
    [kind |-> "none", requests |-> 0, product |-> NullPath, newPath |-> NullPath,
     status |-> 0, cleanup |-> NoCleanup, replaced |-> FALSE, errors |-> <<>>,
     deleted |-> {}, updated |-> FALSE, faulted |-> FALSE, refused |-> FALSE]

InitAdmin ==
    /\ CartAtRest
    /\ files \in SUBSET {<<"uploads", "a.jpg">>, <<"thumbnails", "a.jpg">>}
    /\ directories = Range(ImageDirectories)
    /\ db \in {NoRow,
               [NoRow EXCEPT !.exists = TRUE],
               [NoRow EXCEPT !.exists = TRUE, !.image = InitialImage]}
    /\ call = NoCall
    /\ pc = [p \in Procs |-> "idle"]
    /\ outcome = [p \in Procs |-> NoRequest]

\* res.status(status).json(...): the request is answered.
Respond(p, locals, status, faulted) ==
    /\ pc' = [pc EXCEPT ![p] = "idle"]
    /\ outcome' = [outcome EXCEPT ![p] = [locals EXCEPT !.status = status,
                                                        !.faulted = @ \/ faulted]]

\* The request goes on to its next step.
Proceed(p, locals, next) ==
    /\ pc' = [pc EXCEPT ![p] = next]
    /\ outcome' = [outcome EXCEPT ![p] = locals]

\* cleanupFailedUpload(req.file.path): if (fs.existsSync(filePath))
\* fs.unlinkSync(filePath), a failure of which is logged.
cleanupFailedUpload(disk, file, refused) ==
    IF file \in disk /\ ~refused THEN disk \ {file} ELSE disk

\* The requests sent so far.
RequestsMade == outcome["first"].requests + outcome["second"].requests

\* An admin sends a request of one of the four kinds.
BeginRequest(p, kind) ==
    /\ pc[p] = "idle"
    /\ RequestsMade < MaxRequests
    /\ Proceed(p, [NoRequest EXCEPT !.kind = kind,
                                    !.requests = outcome[p].requests + 1], "get")
    /\ UNCHANGED <<cartVars, files, directories, db, call>>

\* db.get('SELECT * FROM products WHERE id = ?'): 500 on an error, 404
\* without a row, otherwise the handler goes on with the row it read.
GetProduct(p, err) ==
    /\ pc[p] = "get"
    /\ IF err THEN Respond(p, outcome[p], 500, TRUE)
       ELSE IF ~db.exists THEN Respond(p, outcome[p], 404, FALSE)
       ELSE Proceed(p, [outcome[p] EXCEPT !.product = db.image],
                    CASE outcome[p].kind \in {"upload", "replace"} -> "store"
                      [] outcome[p].kind = "update" -> "update"
                      [] outcome[p].kind = "delete" -> "deleteRow")
    /\ UNCHANGED <<cartVars, files, directories, db, call>>

\* uploadSingleImage and processUploadedImage: multer stores the file under
\* its unique name in uploads/; an upload error answers 500, a request
\* without a file 400, and a failed processing removes the file and answers
\* 400.
StoreUpload(p, mode, refused) ==
    LET filename == UploadNames[p][outcome[p].requests]
        file == getAbsoluteImagePath(filename, "original")
    IN  /\ pc[p] = "store"
        /\ CASE mode = "stored" ->
                  /\ files' = files \cup {file}
                  /\ Proceed(p, [outcome[p] EXCEPT
                                   !.newPath = getRelativeImagePath(<<filename>>, "original")],
                             "updateImage")
             [] mode = "uploadError" ->
                  /\ files' = files
                  /\ Respond(p, outcome[p], 500, TRUE)
             [] mode = "noFile" ->
                  /\ files' = files
                  /\ Respond(p, outcome[p], 400, FALSE)
             [] mode = "processingFailed" ->
                  /\ files' = cleanupFailedUpload(files \cup {file}, file, refused)
                  /\ Respond(p, [outcome[p] EXCEPT !.refused = refused], 400, TRUE)
        /\ UNCHANGED <<cartVars, directories, db, call>>

\* Mutation of UpdateImage: the previous image is cleaned up before the
\* UPDATE has run.
UpdateImageAfterCleanup(p, err, refused) ==
    LET newFile == getAbsoluteImagePath(UploadNames[p][outcome[p].requests], "original")
        cleaned == deleteProductImage(files, outcome[p].product, {}).files
        locals == [outcome[p] EXCEPT !.deleted = files \ cleaned]
    IN  /\ pc[p] = "updateImage"
        /\ IF err
           THEN /\ files' = cleanupFailedUpload(cleaned, newFile, refused)
                /\ db' = db
                /\ Respond(p, [locals EXCEPT !.refused = refused /\ newFile \in files],
                           500, TRUE)
           ELSE /\ files' = cleaned
                /\ db' = IF db.exists
                         THEN [db EXCEPT !.image = outcome[p].newPath]
                         ELSE db
                /\ Respond(p, [locals EXCEPT !.updated = TRUE], 200, FALSE)
        /\ UNCHANGED <<cartVars, directories, call>>

\* db.run('UPDATE products SET image = ?, updatedAt = ? WHERE id = ?'): on an
\* error the uploaded file is cleaned up and the answer is 500.  this.changes
\* is not looked at.  POST answers at once when the row had no image.
UpdateImage(p, err, refused) ==
    LET newFile == getAbsoluteImagePath(UploadNames[p][outcome[p].requests], "original")
        locals == [outcome[p] EXCEPT !.updated = TRUE]
    IN  /\ pc[p] = "updateImage"
        /\ IF err
           THEN /\ files' = cleanupFailedUpload(files, newFile, refused)
                /\ db' = db
                /\ Respond(p, [outcome[p] EXCEPT !.deleted = files \ files',
                                                 !.refused = refused /\ newFile \in files],
                           500, TRUE)
           ELSE /\ files' = files
                /\ db' = IF db.exists
                         THEN [db EXCEPT !.image = outcome[p].newPath]
                         ELSE db
                /\ IF outcome[p].kind = "upload" /\ Falsy(outcome[p].product)
                   THEN Respond(p, locals, 200, FALSE)
                   ELSE Proceed(p, locals, "replaceImage")
        /\ UNCHANGED <<cartVars, directories, call>>

\* Mutation of ReplaceImage: the cleanup takes the image the row has now, not
\* the one the request read.
ReplaceImageOfCurrentRow(p, failing) ==
    LET done == replaceProductImage(files, db.image, outcome[p].newPath, {})
    IN  /\ pc[p] = "replaceImage"
        /\ files' = done.files
        /\ Respond(p, [outcome[p] EXCEPT !.cleanup = done.result.oldImageCleanup,
                                         !.replaced = done.result.success,
                                         !.errors = done.result.errors,
                                         !.deleted = files \ done.files],
                   200, FALSE)
        /\ UNCHANGED <<cartVars, directories, db, call>>

\* Mutation of ReplaceImage: the cleanup deletes the new image.
ReplaceImageCleaningNew(p, failing) ==
    LET done == deleteProductImage(files, outcome[p].newPath, {})
    IN  /\ pc[p] = "replaceImage"
        /\ files' = done.files
        /\ Respond(p, [outcome[p] EXCEPT !.deleted = files \ done.files], 200, FALSE)
        /\ UNCHANGED <<cartVars, directories, db, call>>

\* await replaceProductImage(oldImagePath, imageInfo.relativePath) and the
\* success response, which carries its result.
ReplaceImage(p, failing) ==
    LET done == replaceProductImage(files, outcome[p].product, outcome[p].newPath, failing)
    IN  /\ pc[p] = "replaceImage"
        /\ files' = done.files
        /\ Respond(p, [outcome[p] EXCEPT !.cleanup = done.result.oldImageCleanup,
                                         !.replaced = done.result.success,
                                         !.errors = done.result.errors,
                                         !.deleted = files \ done.files],
                   200, failing # {})
        /\ UNCHANGED <<cartVars, directories, db, call>>

\* PUT /products/:id with only the image field: db.run(UPDATE products SET
\* image = ?, updatedAt = ? WHERE id = ?); 500 on an error, 404 when no row
\* changed.
UpdateProduct(p, image, err) ==
    /\ pc[p] = "update"
    /\ IF err
       THEN db' = db /\ Respond(p, outcome[p], 500, TRUE)
       ELSE IF ~db.exists
       THEN db' = db /\ Respond(p, outcome[p], 404, FALSE)
       ELSE /\ db' = [db EXCEPT !.image = image]
            /\ Respond(p, [outcome[p] EXCEPT !.newPath = image, !.updated = TRUE],
                       200, FALSE)
    /\ UNCHANGED <<cartVars, files, directories, call>>

\* Mutation of DeleteRow: the image is deleted although the DELETE failed.
DeleteRowThenImageAnyway(p, err) ==
    /\ pc[p] = "deleteRow"
    /\ db' = IF err THEN db ELSE [db EXCEPT !.exists = FALSE]
    /\ Proceed(p, [outcome[p] EXCEPT !.updated = ~err /\ db.exists], "deleteImage")
    /\ UNCHANGED <<cartVars, files, directories, call>>

\* db.run('DELETE FROM products WHERE id = ?'): 500 on an error, 404 when no
\* row changed; a product without an image is answered at once.
DeleteRow(p, err) ==
    /\ pc[p] = "deleteRow"
    /\ IF err
       THEN db' = db /\ Respond(p, outcome[p], 500, TRUE)
       ELSE IF ~db.exists
       THEN db' = db /\ Respond(p, outcome[p], 404, FALSE)
       ELSE /\ db' = [db EXCEPT !.exists = FALSE]
            /\ IF Falsy(outcome[p].product)
               THEN Respond(p, [outcome[p] EXCEPT !.updated = TRUE], 200, FALSE)
               ELSE Proceed(p, [outcome[p] EXCEPT !.updated = TRUE], "deleteImage")
    /\ UNCHANGED <<cartVars, files, directories, call>>

\* await deleteProductImage(product.image) and res.json(responseData).
DeleteImage(p, failing) ==
    LET done == deleteProductImage(files, outcome[p].product, failing)
    IN  /\ pc[p] = "deleteImage"
        /\ files' = done.files
        /\ Respond(p, [outcome[p] EXCEPT
                         !.cleanup = [attempted |-> TRUE,
                                      success |-> done.result.success,
                                      deletedFiles |-> done.result.deletedFiles,
                                      errors |-> done.result.errors],
                         !.deleted = files \ done.files],
                   200, failing # {})
        /\ UNCHANGED <<cartVars, directories, db, call>>

\* How an upload can end before the image of the row is updated.
UploadModes == {"stored", "uploadError", "noFile", "processingFailed"}

NextAdmin ==
    \/ \E p \in Procs, kind \in Kinds : BeginRequest(p, kind)
    \/ \E p \in Procs, err \in BOOLEAN : GetProduct(p, err)
    \/ \E p \in Procs, mode \in UploadModes, refused \in BOOLEAN :
          StoreUpload(p, mode, refused)
    \/ \E p \in Procs, err \in BOOLEAN, refused \in BOOLEAN : UpdateImage(p, err, refused)
    \/ \E p \in Procs : \E failing \in Refusals(TargetsOf(outcome[p].product)) :
          ReplaceImage(p, failing)
    \/ \E p \in Procs, image \in UpdateImages, err \in BOOLEAN : UpdateProduct(p, image, err)
    \/ \E p \in Procs, err \in BOOLEAN : DeleteRow(p, err)
    \/ \E p \in Procs : \E failing \in Refusals(TargetsOf(outcome[p].product)) :
          DeleteImage(p, failing)

SpecAdmin == InitAdmin /\ [][NextAdmin]_vars

\* -------------------------------------- concurrent ensureDirectoriesExist

\* The calls of ensureDirectoriesExist a process makes in the model.
MaxCalls == 2

\* The directories that exist before the first call: the base directory is
\* there when one below it is.
InitialDirectories ==
    { d \in SUBSET Range(ImageDirectories) : d # {} => "base" \in d }

\* The locals of a process that has not called ensureDirectoriesExist.
NoEnsure == [calls |-> 0, dir |-> 1, made |-> {}, error |-> FALSE]

InitDirectories ==
    /\ CartAtRest
    /\ files = {}
    /\ directories \in InitialDirectories
    /\ db = NoRow
    /\ call = NoCall
    /\ pc = [p \in Procs |-> "idle"]
    /\ outcome = [p \in Procs |-> NoEnsure]

\* Mutation of mkdir: without { recursive: true } an existing directory is an
\* error (EEXIST).
mkdirNotRecursive(existing, dir) ==
    IF dir \in existing
    THEN [directories |-> existing, error |-> TRUE]
    ELSE [directories |-> existing \cup {dir}, error |-> FALSE]

\* fs.promises.mkdir(dir, { recursive: true }): creates the directory and the
\* base directory above it, and resolves when they exist already.
mkdir(existing, dir) ==
    [directories |-> existing \cup {dir, "base"}, error |-> FALSE]

\* A startup calls ensureDirectoriesExist().
EnsureDirectoriesExist(p) ==
    /\ pc[p] \in {"idle", "ensured"}
    /\ outcome[p].calls < MaxCalls
    /\ pc' = [pc EXCEPT ![p] = "check"]
    /\ outcome' = [outcome EXCEPT ![p].calls = @ + 1, ![p].dir = 1]
    /\ UNCHANGED <<cartVars, files, directories, db, call>>

\* The step of the for loop after the directory outcome[p].dir.
AfterDirectory(p) ==
    IF outcome[p].dir = Len(ImageDirectories) THEN "ensured" ELSE "check"

\* if (!fs.existsSync(dir)) for the directory the loop is at.
CheckDirectory(p) ==
    /\ pc[p] = "check"
    /\ IF ImageDirectories[outcome[p].dir] \in directories
       THEN /\ pc' = [pc EXCEPT ![p] = AfterDirectory(p)]
            /\ outcome' = [outcome EXCEPT ![p].dir =
                              IF @ = Len(ImageDirectories) THEN 1 ELSE @ + 1]
       ELSE /\ pc' = [pc EXCEPT ![p] = "mkdir"]
            /\ outcome' = outcome
    /\ UNCHANGED <<cartVars, files, directories, db, call>>

\* await fs.promises.mkdir(dir, { recursive: true }); a rejection leaves the
\* function, which has no catch.
MakeDirectory(p) ==
    LET dir == ImageDirectories[outcome[p].dir]
        made == mkdir(directories, dir)
    IN  /\ pc[p] = "mkdir"
        /\ directories' = made.directories
        /\ pc' = [pc EXCEPT ![p] = IF made.error THEN "failed" ELSE AfterDirectory(p)]
        /\ outcome' = [outcome EXCEPT
                         ![p].made = @ \cup {dir},
                         ![p].error = made.error,
                         ![p].dir = IF made.error THEN @
                                    ELSE IF @ = Len(ImageDirectories) THEN 1 ELSE @ + 1]
        /\ UNCHANGED <<cartVars, files, db, call>>

NextDirectories ==
    \/ \E p \in Procs : EnsureDirectoriesExist(p)
    \/ \E p \in Procs : CheckDirectory(p)
    \/ \E p \in Procs : MakeDirectory(p)

SpecDirectories == InitDirectories /\ [][NextDirectories]_vars

\* --------------------------------------- concurrent deleteProductImage

\* Two requests have called deleteProductImage with the same valid path and
\* neither has reached its first existsSync.
InitDeleteRace ==
    /\ CartAtRest
    /\ ServerIdle
    /\ files \in SUBSET AllFiles
    /\ \E relativePath \in ValidPaths :
          call = [NoCall EXCEPT !.op = "concurrent", !.path = relativePath,
                                !.before = files]
    /\ pc = [p \in Procs |-> "checkOriginal"]
    /\ outcome = [p \in Procs |-> NewDeletionResult]

\* if (fs.existsSync(path)): the call goes on to unlink when the file is there
\* and to the step after the try block when it is not.
ExistsSync(p, at, path, unlink, next) ==
    /\ pc[p] = at
    /\ pc' = [pc EXCEPT ![p] = IF path \in files THEN unlink ELSE next]
    /\ UNCHANGED <<cartVars, files, directories, db, call, outcome>>

\* await fs.promises.unlink(path); result.deletedFiles.push(path), and the
\* catch block when the unlink rejects because the file is gone (ENOENT).
Unlink(p, at, path, message, next) ==
    /\ pc[p] = at
    /\ pc' = [pc EXCEPT ![p] = next]
    /\ IF path \in files
       THEN /\ files' = files \ {path}
            /\ outcome' = [outcome EXCEPT ![p].deletedFiles = Append(@, path)]
       ELSE /\ files' = files
            /\ outcome' = [outcome EXCEPT ![p].errors = Append(@, message),
                                          ![p].success = FALSE]
    /\ UNCHANGED <<cartVars, directories, db, call>>

\* The original file of the path both calls were given.
RaceOriginal == getAbsoluteImagePath(extractFilenameFromPath(call.path), "original")

\* The thumbnail file of the path both calls were given.
RaceThumbnail == getAbsoluteImagePath(extractFilenameFromPath(call.path), "thumbnail")

CheckOriginal(p) ==
    ExistsSync(p, "checkOriginal", RaceOriginal, "unlinkOriginal", "checkThumbnail")

UnlinkOriginal(p) ==
    Unlink(p, "unlinkOriginal", RaceOriginal, FailedOriginal, "checkThumbnail")

CheckThumbnail(p) ==
    ExistsSync(p, "checkThumbnail", RaceThumbnail, "unlinkThumbnail", "done")

UnlinkThumbnail(p) ==
    Unlink(p, "unlinkThumbnail", RaceThumbnail, FailedThumbnail, "done")

NextDeleteRace ==
    \/ \E p \in Procs : CheckOriginal(p)
    \/ \E p \in Procs : UnlinkOriginal(p)
    \/ \E p \in Procs : CheckThumbnail(p)
    \/ \E p \in Procs : UnlinkThumbnail(p)

SpecDeleteRace == InitDeleteRace /\ [][NextDeleteRace]_vars

\* ------------------------------------------------- vocabulary of the claims

\* The indices of the lines of a product in one pricing bucket.
LinesOf(state, id, sale) ==
    { i \in 1..Len(state) : state[i].id = id /\ state[i].isOnSale = sale }

\* The lines of a product, in cart order.
ProductLines(state, id) == SelectSeq(state, LAMBDA l : l.id = id)

\* The lines of all other products, in cart order.
OtherLines(state, id) == SelectSeq(state, LAMBDA l : l.id # id)

\* The sum of values[i] over the indices i.
RECURSIVE SumOver(_, _)
SumOver(values, indices) ==
    IF indices = {} THEN 0
    ELSE LET i == CHOOSE j \in indices : TRUE
         IN  values[i] + SumOver(values, indices \ {i})

QuantityOfLine(state) == [i \in 1..Len(state) |-> state[i].quantity]

AmountOfLine(state) == [i \in 1..Len(state) |-> state[i].price * state[i].quantity]

\* Units of a product in one pricing bucket, and units in the whole cart.
UnitsOf(state, id, sale) == SumOver(QuantityOfLine(state), LinesOf(state, id, sale))

Units(state) == SumOver(QuantityOfLine(state), 1..Len(state))

\* Sum over the lines of price * quantity.
LineSum(state) == SumOver(AmountOfLine(state), 1..Len(state))

Min(a, b) == IF a < b THEN a ELSE b

Max(a, b) == IF a > b THEN a ELSE b

\* Every line of product id was put there by addToCart calls with the
\* snapshot products[id], adds[id] of them, starting from no line of id.
OnlyAdded(id) == onlyAdds[id] /\ ~refetched[id] /\ adds[id] >= 1

\* Product id is on sale with a cap of at least one unit.
Capped(id) == products[id].isOnSale /\ products[id].onSaleQuantity >= 1

\* ----------------------------------------------------------------- claims

\* C1: for a product snapshot with isOnSale and onSaleQuantity = N >= 1 that
\* stays the same, in a sequence of addToCart calls from a cart without the
\* product, no add leaves more than N units in the sale-priced line, and the
\* (N+1)-th and every later add leaves the sale-priced line alone and puts
\* its unit into a regular-priced line of the product.
C1_SaleCapOnAdds ==
    [][\A id \in Ids :
         (lastOp'.op = "add" /\ lastOp'.id = id /\ OnlyAdded(id)' /\ Capped(id))
         => LET N == products[id].onSaleQuantity
            IN  /\ UnitsOf(cartItems', id, TRUE) <= N
                /\ adds'[id] > N =>
                     /\ UnitsOf(cartItems', id, TRUE) = UnitsOf(cartItems, id, TRUE)
                     /\ UnitsOf(cartItems', id, FALSE) = UnitsOf(cartItems, id, FALSE) + 1
                     /\ LinesOf(cartItems', id, FALSE) # {}
                     /\ LinesOf(cartItems', id, TRUE) = LinesOf(cartItems, id, TRUE)]_vars

\* C1 witness: after N + 2 adds of a capped product the sale line holds N
\* units and the regular line 2.
C1_Witness ==
    \E id \in Ids :
        /\ lastOp.op = "add" /\ lastOp.id = id /\ OnlyAdded(id) /\ Capped(id)
        /\ adds[id] = products[id].onSaleQuantity + 2
        /\ UnitsOf(cartItems, id, TRUE) = products[id].onSaleQuantity
        /\ UnitsOf(cartItems, id, FALSE) = 2

\* C2: with each product's snapshot held constant, no sale-priced line has a
\* quantity above the product's onSaleQuantity, whatever sequence of
\* addToCart, removeFromCart, updateQuantity and clearCart led to the cart.
C2_SaleCapInvariant ==
    \A i \in 1..Len(cartItems) :
        cartItems[i].isOnSale
        => cartItems[i].quantity <= products[cartItems[i].id].onSaleQuantity

\* C3: each product id has at most one sale-priced line and at most one
\* regular-priced line.
C3_BucketSeparation ==
    \A id \in Ids :
        /\ Cardinality(LinesOf(cartItems, id, TRUE)) <= 1
        /\ Cardinality(LinesOf(cartItems, id, FALSE)) <= 1

\* C3 witness: a product with a sale-priced and a regular-priced line, both
\* with more than one unit.
C3_Witness ==
    \E id \in Ids :
        /\ \E i \in LinesOf(cartItems, id, TRUE) : cartItems[i].quantity >= 2
        /\ \E i \in LinesOf(cartItems, id, FALSE) : cartItems[i].quantity >= 2

\* C4: k addToCart calls with the same capped product (price p, salePrice s,
\* onSaleQuantity N >= 1) from a cart without the product leave exactly one
\* sale-priced line of price s and quantity min(k, N), followed, only when
\* k > N, by one regular-priced line of price p and quantity k - N; when the
\* cart holds no other product, cartTotal = s * min(k, N) + p * max(k - N, 0).
C4_AddsOfOneProduct ==
    \A id \in Ids :
        (OnlyAdded(id) /\ Capped(id))
        => LET k == adds[id]
               N == products[id].onSaleQuantity
               p == products[id].price
               s == products[id].salePrice
               saleLine == [id |-> id, price |-> s, isOnSale |-> TRUE,
                            quantity |-> Min(k, N)]
               regularLine == [id |-> id, price |-> p, isOnSale |-> FALSE,
                               quantity |-> k - N]
           IN  /\ ProductLines(cartItems, id) =
                    IF k > N THEN <<saleLine, regularLine>> ELSE <<saleLine>>
               /\ OtherLines(cartItems, id) = <<>>
                    => cartTotal = s * Min(k, N) + p * Max(k - N, 0)

\* C4 witness: p = 100, s = 80, N = 2, k = 3 gives a sale line of 2, a
\* regular line of 1 and a total of 260.
C4_Witness ==
    \E id \in Ids :
        /\ OnlyAdded(id) /\ adds[id] = 3
        /\ products[id] = [id |-> id, price |-> 100, salePrice |-> 80,
                           isOnSale |-> TRUE, onSaleQuantity |-> 2]
        /\ cartItems = << [id |-> id, price |-> 80, isOnSale |-> TRUE, quantity |-> 2],
                          [id |-> id, price |-> 100, isOnSale |-> FALSE, quantity |-> 1] >>
        /\ cartTotal = 260

\* C5: after every operation cartTotal is the sum over the current lines of
\* price * quantity; after clearCart the cart is empty and the total 0; after
\* removeFromCart(id) the total is the sum over the lines of the other
\* products only.
C5_TotalIsLineSum ==
    /\ cartTotal = LineSum(cartItems)
    /\ lastOp.op = "clear" => cartItems = <<>> /\ cartTotal = 0
    /\ lastOp.op = "remove" => cartTotal = LineSum(OtherLines(cartItems, lastOp.id))

\* C5 witness: removeFromCart removed two lines of one product and the total
\* is that of the two lines of the other product.
C5_Witness ==
    /\ lastOp.op = "remove" /\ lastOp.removed = 2
    /\ Len(cartItems) = 2
    /\ cartTotal = LineSum(cartItems) /\ cartTotal > 0
\* C6: one addToCart call either raises the quantity of exactly one line of
\* the product by 1 or appends exactly one line of the product with quantity
\* 1; the units in the cart grow by exactly 1 and the lines of every other
\* product are unchanged.
C6_AddGrowsByOneUnit ==
    [][lastOp'.op = "add" =>
         LET id == lastOp'.id
             n == Len(cartItems)
         IN  /\ Units(cartItems') = Units(cartItems) + 1
             /\ \/ /\ Len(cartItems') = n
                   /\ \E i \in 1..n :
                        /\ cartItems[i].id = id
                        /\ cartItems'[i] = [cartItems[i] EXCEPT !.quantity = @ + 1]
                        /\ \A j \in (1..n) \ {i} : cartItems'[j] = cartItems[j]
                \/ /\ Len(cartItems') = n + 1
                   /\ SubSeq(cartItems', 1, n) = cartItems
                   /\ cartItems'[n + 1].id = id
                   /\ cartItems'[n + 1].quantity = 1
             /\ OtherLines(cartItems', id) = OtherLines(cartItems, id)]_vars

\* C6 witness: the second add of a product raised its only line to 2 units
\* beside the two lines of the other product.
C6_Witness ==
    \E id \in Ids :
        /\ lastOp.op = "add" /\ lastOp.id = id /\ OnlyAdded(id) /\ adds[id] = 2
        /\ Len(ProductLines(cartItems, id)) = 1
        /\ ProductLines(cartItems, id)[1].quantity = 2
        /\ Len(OtherLines(cartItems, id)) = 2

\* C7: removeFromCart(productId) removes every line of the product, the
\* sale-priced and the regular-priced one, and leaves the lines of the other
\* products as they were, in the same order.
C7_RemoveTakesBothBuckets ==
    [][lastOp'.op = "remove" =>
         LET id == lastOp'.id
         IN  /\ LinesOf(cartItems', id, TRUE) = {}
             /\ LinesOf(cartItems', id, FALSE) = {}
             /\ cartItems' = OtherLines(cartItems, id)]_vars

\* C7 witness: removeFromCart removed both lines of one product and the sale
\* and regular line of the other product are left, in that order.
C7_Witness ==
    /\ lastOp.op = "remove" /\ lastOp.removed = 2
    /\ Len(cartItems) = 2
    /\ cartItems[1].id # lastOp.id /\ cartItems[1].isOnSale
    /\ cartItems[2].id # lastOp.id /\ ~cartItems[2].isOnSale

\* C8: updateQuantity(productId, n) with n < 1 leaves the cart and the total
\* that removeFromCart(productId) leaves: no line of the product, and no line
\* with a quantity below 1.
C8_UpdateBelowOneIsRemove ==
    [][(lastOp'.op = "update" /\ lastOp'.n < 1) =>
         LET id == lastOp'.id
         IN  /\ cartItems' = removeFromCart(cartItems, id)
             /\ cartTotal' = CartTotalOf(removeFromCart(cartItems, id))
             /\ ~HasLine(cartItems', id)
             /\ Len(cartItems') = Len(OtherLines(cartItems, id))
             /\ \A i \in 1..Len(cartItems') : cartItems'[i].quantity >= 1]_vars

\* C8 witness: updateQuantity(id, 0) removed a line and left others.
C8_Witness ==
    /\ lastOp.op = "update" /\ lastOp.n = 0 /\ lastOp.removed >= 1
    /\ cartItems # <<>>

\* C9: every line has quantity >= 1; after an updateQuantity with a quantity
\* below 1 the product has no line left.
C9_QuantityAtLeastOne ==
    /\ \A i \in 1..Len(cartItems) : cartItems[i].quantity >= 1
    /\ (lastOp.op = "update" /\ lastOp.n < 1) => ~HasLine(cartItems, lastOp.id)

\* C9 witness: updateQuantity(id, -1) removed both lines of the product.
C9_Witness ==
    /\ lastOp.op = "update" /\ lastOp.n = -1 /\ lastOp.removed = 2

\* C10: a line is created with the price of its bucket in the snapshot
\* passed to addToCart (salePrice for a sale-priced line, price for a
\* regular-priced one), and no addToCart or updateQuantity changes the price
\* or the isOnSale flag of a line that exists, also when the snapshot passed
\* carries other prices than the one the line was created from.
C10_PriceFixedAtCreation ==
    [][(lastOp'.op = "add" \/ (lastOp'.op = "update" /\ lastOp'.n >= 1)) =>
         LET n == Len(cartItems)
         IN  /\ Len(cartItems') >= n
             /\ \A i \in 1..n :
                  /\ cartItems'[i].id = cartItems[i].id
                  /\ cartItems'[i].price = cartItems[i].price
                  /\ cartItems'[i].isOnSale = cartItems[i].isOnSale
             /\ Len(cartItems') > n =>
                  /\ lastOp'.op = "add"
                  /\ Len(cartItems') = n + 1
                  /\ cartItems'[n + 1].price =
                       IF cartItems'[n + 1].isOnSale
                       THEN lastOp'.product.salePrice
                       ELSE lastOp'.product.price]_vars

\* C10 witness: addToCart was called with a snapshot of other prices than
\* those of the product's sale-priced and regular-priced lines, which both
\* kept theirs.
C10_Witness ==
    /\ lastOp.op = "add" /\ refetched[lastOp.id] /\ lastOp.product # products[lastOp.id]
    /\ \E i \in LinesOf(cartItems, lastOp.id, TRUE) :
         cartItems[i].price # lastOp.product.salePrice
    /\ \E i \in LinesOf(cartItems, lastOp.id, FALSE) :
         cartItems[i].price # lastOp.product.price /\ cartItems[i].quantity >= 2

\* ------------------------------------------------ claims on the storage

\* The last call was deleteProductImage(call.path), run on its own.
Deleted == call.op = "delete"

\* The last call was replaceProductImage(call.oldPath, call.path), run on its own.
Replaced == call.op = "replace"

\* The last call was deleteMultipleProductImages(call.paths), run on its own.
DeletedMultiple == call.op = "deleteMultiple"

\* The path is a string that starts with '/images/products/'.
Resolves(relativePath) == ~Falsy(relativePath) /\ StartsWithProductsPrefix(relativePath)

\* The file in uploads/ and the file in thumbnails/ that a path resolves to.
OriginalOf(relativePath) ==
    <<"uploads", relativePath.segments[Len(relativePath.segments)]>>

ThumbnailOf(relativePath) ==
    <<"thumbnails", relativePath.segments[Len(relativePath.segments)]>>

\* C19: deleteProductImage with a path that does not start with
\* '/images/products/' returns success = false, deletedFiles empty and exactly
\* one error, 'Invalid image path provided', and deletes nothing on disk; with
\* a null or empty path it returns success = true with deletedFiles and errors
\* empty and deletes nothing on disk.
C19_InvalidAndEmptyPaths ==
    Deleted =>
      /\ (~Falsy(call.path) /\ ~StartsWithProductsPrefix(call.path)) =>
           /\ call.result = [success |-> FALSE, deletedFiles |-> <<>>,
                             errors |-> <<InvalidImagePath>>]
           /\ files = call.before
      /\ Falsy(call.path) =>
           /\ call.result = [success |-> TRUE, deletedFiles |-> <<>>, errors |-> <<>>]
           /\ files = call.before

\* C19 witness: deleteProductImage('/images/uploads/a.jpg') was called while
\* uploads/a.jpg and thumbnails/a.jpg were on disk.
C19_Witness ==
    /\ Deleted
    /\ call.path = StringPath(<<"images", "uploads", "a.jpg">>)
    /\ {<<"uploads", "a.jpg">>, <<"thumbnails", "a.jpg">>} \subseteq call.before
    /\ ~call.result.success

\* C16: deleteProductImage of a path that resolves attempts the unlink of the
\* original and of the thumbnail independently and in that order: a failed
\* unlink of the original is appended to errors and the thumbnail is still
\* unlinked; success is false exactly when an attempted unlink failed,
\* deletedFiles lists exactly the files that were present and unlinked, and
\* the call returns a result.
C16_IndependentDeletions ==
    (Deleted /\ Resolves(call.path)) =>
      LET original == OriginalOf(call.path)
          thumbnail == ThumbnailOf(call.path)
          attempted == {original, thumbnail} \cap call.before
          failed == attempted \cap call.failing
          unlinked == attempted \ failed
      IN  /\ call.result.success = (failed = {})
          /\ call.result.deletedFiles =
               SelectSeq(<<original, thumbnail>>, LAMBDA f : f \in unlinked)
          /\ call.result.errors =
               (IF original \in failed THEN <<FailedOriginal>> ELSE <<>>) \o
               (IF thumbnail \in failed THEN <<FailedThumbnail>> ELSE <<>>)
          /\ files = call.before \ unlinked

\* C16 witness: the unlink of the original failed and the thumbnail was
\* deleted all the same.
C16_Witness ==
    /\ Deleted /\ Resolves(call.path)
    /\ OriginalOf(call.path) \in call.failing
    /\ ThumbnailOf(call.path) \in call.before \ files
    /\ call.result.errors = <<FailedOriginal>>
    /\ call.result.deletedFiles = <<ThumbnailOf(call.path)>>

\* The last call was deleteProductImage of a path that resolves, and so was
\* the call before it, of the same path.
DeletedTwice == Deleted /\ Resolves(call.path) /\ call.previous.same

\* The second of two calls in a row found neither file, returned the empty
\* successful result and left the disk as it was.
SecondCallIsNoOp ==
    /\ OriginalOf(call.path) \notin call.before
    /\ ThumbnailOf(call.path) \notin call.before
    /\ call.result = [success |-> TRUE, deletedFiles |-> <<>>, errors |-> <<>>]
    /\ files = call.before

DiskBefore(i) ==
    call.before \ UNION { Range(call.result.results[j].deletedFiles) : j \in 1..(i - 1) }

\* C20: deleteMultipleProductImages processes every path of the list in
\* order, one result per path, and an invalid or failing path does not stop
\* the paths after it from being deleted; totalDeleted is the sum of the
\* per-path deletedFiles counts, totalErrors the sum of the per-path errors
\* counts, and success is false exactly when some per-path result has success
\* = false; an input that is not an array or is empty returns success = true
\* with zero counts and no results.
C20_BatchAggregates ==
    DeletedMultiple =>
      LET relativePaths == call.paths.paths
          results == call.result.results
          n == Len(relativePaths)
      IN  IF ~call.paths.isArray \/ n = 0
          THEN /\ call.result = [success |-> TRUE, totalDeleted |-> 0,
                                 totalErrors |-> 0, results |-> <<>>]
               /\ files = call.before
          ELSE /\ Len(results) = n
               /\ \A i \in 1..n :
                    LET single == deleteProductImage(DiskBefore(i), relativePaths[i],
                                                     call.failing).result
                    IN  /\ results[i].path = relativePaths[i]
                        /\ results[i].success = single.success
                        /\ results[i].deletedFiles = single.deletedFiles
                        /\ results[i].errors = single.errors
                        /\ \A f \in (TargetsOf(relativePaths[i]) \cap call.before)
                                       \ call.failing : f \notin files
               /\ call.result.totalDeleted =
                    SumOver([i \in 1..n |-> Len(results[i].deletedFiles)], 1..n)
               /\ call.result.totalErrors =
                    SumOver([i \in 1..n |-> Len(results[i].errors)], 1..n)
               /\ call.result.success = (\A i \in 1..n : results[i].success)
               /\ files = DiskBefore(n + 1)

\* C20 witness: the first path of the array was invalid and the files of the
\* second were deleted all the same.
C20_Witness ==
    /\ DeletedMultiple
    /\ call.paths.isArray /\ Len(call.paths.paths) = 2
    /\ ~Resolves(call.paths.paths[1]) /\ ~Falsy(call.paths.paths[1])
    /\ ~call.result.results[1].success
    /\ Len(call.result.results[2].deletedFiles) = 2
    /\ ~call.result.success
    /\ call.result.totalDeleted = 2 /\ call.result.totalErrors = 1

\* The path of the new image resolves to a file that was on disk when
\* replaceProductImage was called.
NewImageExisted == Resolves(call.path) /\ OriginalOf(call.path) \in call.before

\* replaceProductImage was given an old path that is a non-empty string other
\* than the new path.
OldPathDiffers == ~Falsy(call.oldPath) /\ call.oldPath # call.path

\* The cleanup of the old image was run and reported success = false: the old
\* path does not resolve, or the environment refused one of its unlinks.
CleanupFailed ==
    /\ NewImageExisted
    /\ OldPathDiffers
    /\ (~Resolves(call.oldPath) \/ call.failing # {})

\* C12: replaceProductImage(old, new) returns success = true whenever new
\* resolves to a file that exists on disk, whatever old is: null, equal to
\* new, pointing to missing files (then oldImageCleanup is attempted = true,
\* success = true, deletedFiles empty, errors empty), or pointing to files
\* whose deletion fails.
C12_SuccessWheneverNewExists ==
    (Replaced /\ NewImageExisted) =>
      /\ call.result.success
      /\ call.result.newImagePath = call.path
      /\ (OldPathDiffers /\ Resolves(call.oldPath)
            /\ TargetsOf(call.oldPath) \cap call.before = {}) =>
           call.result.oldImageCleanup =
             [attempted |-> TRUE, success |-> TRUE, deletedFiles |-> <<>>, errors |-> <<>>]

\* C12 witness: the unlink of the old image's file was refused and the
\* replacement returned success = true.
C12_Witness ==
    /\ Replaced /\ NewImageExisted /\ OldPathDiffers
    /\ OriginalOf(call.oldPath) \in call.failing
    /\ ~call.result.oldImageCleanup.success
    /\ call.result.success

\* C13: replaceProductImage returns success = false with a single error when
\* newPath is null or empty ('New image path is required'), when newPath does
\* not start with the expected prefix ('Invalid new image path provided'), or
\* when the file it resolves to is absent ('New image file does not exist');
\* in each of these cases the cleanup of the old image is not attempted and no
\* file on disk is deleted.
C13_InvalidNewImage ==
    (Replaced /\ ~NewImageExisted) =>
      /\ ~call.result.success
      /\ call.result.errors =
           IF Falsy(call.path) THEN <<NewPathRequired>>
           ELSE IF ~StartsWithProductsPrefix(call.path) THEN <<InvalidNewPath>>
           ELSE <<NewFileMissing>>
      /\ ~call.result.oldImageCleanup.attempted
      /\ call.result.oldImageCleanup.deletedFiles = <<>>
      /\ files = call.before

\* C13 witness: the new path resolved to an absent file while both files of
\* the old image, another image, were on disk; they stayed.
C13_Witness ==
    /\ Replaced
    /\ Resolves(call.path) /\ OriginalOf(call.path) \notin call.before
    /\ OldPathDiffers /\ Resolves(call.oldPath)
    /\ {OriginalOf(call.oldPath), ThumbnailOf(call.oldPath)} \subseteq files
    /\ call.result.errors = <<NewFileMissing>>

\* C15: replaceProductImage skips the cleanup when oldPath is null or empty
\* or is the same string as newPath: given that the new file exists, the
\* result has oldImageCleanup.attempted = false, errors empty and success =
\* true, and no file on disk is deleted.
C15_CleanupSkipped ==
    (Replaced /\ NewImageExisted /\ ~OldPathDiffers) =>
      /\ ~call.result.oldImageCleanup.attempted
      /\ call.result.oldImageCleanup.deletedFiles = <<>>
      /\ call.result.oldImageCleanup.errors = <<>>
      /\ call.result.errors = <<>>
      /\ call.result.success
      /\ files = call.before

\* C15 witness: the old path was the new path, and the original and the
\* thumbnail it resolves to were on disk and stayed.
C15_Witness ==
    /\ Replaced /\ NewImageExisted
    /\ call.oldPath = call.path
    /\ ThumbnailOf(call.path) \in files /\ OriginalOf(call.path) \in files
    /\ ~call.result.oldImageCleanup.attempted

\* C14 as stated: when the old-image cleanup inside replaceProductImage fails,
\* replaceProductImage still returns success = true, sets
\* oldImageCleanup.attempted = true and oldImageCleanup.success = false, and
\* the failure is reported both in oldImageCleanup.errors and in the result's
\* own errors list.
C14_FailureInBothLists ==
    (Replaced /\ CleanupFailed) =>
      /\ call.result.success
      /\ call.result.oldImageCleanup.attempted
      /\ ~call.result.oldImageCleanup.success
      /\ call.result.oldImageCleanup.errors # <<>>
      /\ Range(call.result.oldImageCleanup.errors) \subseteq Range(call.result.errors)

\* C14: when the old-image cleanup inside replaceProductImage fails,
\* replaceProductImage still returns success = true, sets
\* oldImageCleanup.attempted = true and oldImageCleanup.success = false, and
\* the failure is reported in oldImageCleanup.errors only: the result's own
\* errors list stays empty.
C14_FailureInCleanupErrors ==
    (Replaced /\ CleanupFailed) =>
      /\ call.result.success
      /\ call.result.oldImageCleanup.attempted
      /\ ~call.result.oldImageCleanup.success
      /\ call.result.oldImageCleanup.errors =
           deleteProductImage(call.before, call.oldPath, call.failing).result.errors
      /\ call.result.oldImageCleanup.errors # <<>>
      /\ call.result.errors = <<>>

\* C14 witness: the unlink of the old original and of the old thumbnail were
\* both refused.
C14_Witness ==
    /\ Replaced /\ CleanupFailed
    /\ call.result.oldImageCleanup.errors = <<FailedOriginal, FailedThumbnail>>
    /\ call.result.errors = <<>>
    /\ call.result.success

\* C11: for every oldPath and newPath, when replaceProductImage(oldPath,
\* newPath) returns success = true, the file that newPath resolves to still
\* exists on disk at return: the cleanup of the old image never deletes the
\* new image's file, including when oldPath differs from newPath as a string.
C11_NewImageSurvives ==
    (Replaced /\ call.result.success) => OriginalOf(call.path) \in files

\* Both concurrent deleteProductImage calls have returned.
BothReturned == \A p \in Procs : pc[p] = "done"

\* C18: a delete target that is absent is never reported as an error, also
\* when deleteProductImage calls on the same path run concurrently: under
\* every interleaving of the exists-check and unlink steps of two such calls,
\* both calls return success = true with errors empty, and each file appears
\* in the deletedFiles of at most one call.
C18_ConcurrentDeletesSucceed ==
    BothReturned =>
      /\ \A p \in Procs : outcome[p].success /\ outcome[p].errors = <<>>
      /\ \A p \in Procs, q \in Procs :
           p # q => Range(outcome[p].deletedFiles) \cap Range(outcome[q].deletedFiles) = {}

\* The last call was validateImageExists(call.path).
Validated == call.op = "validate"

\* C21: validateImageExists never modifies the file system and returns exists
\* = true with no error field exactly when the path has the expected prefix
\* and its original file is on disk; otherwise exists = false with error 'No
\* image path provided' for a null or empty path, 'Invalid image path format'
\* for a path without the expected prefix, and 'Image file does not exist'
\* when the file is absent.
C21_ValidationTaxonomy ==
    Validated =>
      /\ files = call.before
      /\ call.result.exists = (Resolves(call.path) /\ OriginalOf(call.path) \in files)
      /\ call.result.exists => "error" \notin DOMAIN call.result
      /\ ~call.result.exists =>
           /\ "error" \in DOMAIN call.result
           /\ call.result.error =
                IF Falsy(call.path) THEN NoPathProvided
                ELSE IF ~StartsWithProductsPrefix(call.path) THEN InvalidPathFormat
                ELSE FileMissing

\* C21 witness: the thumbnail of the path was on disk, its original was not,
\* and validateImageExists answered that the file does not exist.
C21_Witness ==
    /\ Validated /\ Resolves(call.path)
    /\ ThumbnailOf(call.path) \in files
    /\ OriginalOf(call.path) \notin files
    /\ ~call.result.exists
    /\ call.result.error = FileMissing

\* C22: for every filename f without path separators and for both variants v,
\* extractFilenameFromPath(getRelativeImagePath(f, v)) = f; and
\* extractFilenameFromPath returns null for a null or empty path and for
\* every path that does not start with '/images/products/'.  A filename has
\* at least one character: f is one segment.
C22_FilenameRoundTrip ==
    /\ (call.op = "roundTrip" /\ Len(call.filename) = 1) =>
         call.result.filename = call.filename[1]
    /\ (call.op = "extract" /\ (Falsy(call.path) \/ ~StartsWithProductsPrefix(call.path))) =>
         call.result.filename = NoFilename

\* C22 witness: the thumbnail path of 'b.jpg' was built and 'b.jpg' extracted
\* from it.
C22_Witness ==
    /\ call.op = "roundTrip"
    /\ call.filename = <<"b.jpg">> /\ call.type = "thumbnail"
    /\ call.path = StringPath(<<"images", "products", "thumbnails", "b.jpg">>)
    /\ call.result.filename = "b.jpg"

\* ---------------------------------------------- claims on updateQuantity

\* C29: updateQuantity(productId, n) with n >= 1 sets the quantity of every
\* line whose id is productId to n: when both a sale-priced and a
\* regular-priced line of the product exist, both get quantity n; their prices
\* and isOnSale flags, the number of lines, and every line of other products
\* are unchanged.
C29_UpdateSetsEveryLine ==
    [][(lastOp'.op = "update" /\ lastOp'.n >= 1) =>
         /\ Len(cartItems') = Len(cartItems)
         /\ \A i \in 1..Len(cartItems) :
              IF cartItems[i].id = lastOp'.id
              THEN /\ cartItems'[i].quantity = lastOp'.n
                   /\ cartItems'[i].id = cartItems[i].id
                   /\ cartItems'[i].price = cartItems[i].price
                   /\ cartItems'[i].isOnSale = cartItems[i].isOnSale
              ELSE cartItems'[i] = cartItems[i]]_vars

\* C29 witness: updateQuantity(id, 2) gave quantity 2 to the sale-priced line
\* of a product capped at one sale unit and to its regular-priced line.
C29_Witness ==
    /\ lastOp.op = "update" /\ lastOp.n = 2
    /\ products[lastOp.id].isOnSale /\ products[lastOp.id].onSaleQuantity = 1
    /\ \E i \in LinesOf(cartItems, lastOp.id, TRUE) : cartItems[i].quantity = 2
    /\ \E i \in LinesOf(cartItems, lastOp.id, FALSE) : cartItems[i].quantity = 2
    /\ \E other \in Ids \ {lastOp.id} : HasLine(cartItems, other)

\* ------------------------------------- claims on ensureDirectoriesExist

\* C23: ensureDirectoriesExist is idempotent and safe under concurrent calls:
\* under every interleaving of the exists-checks and directory creations of
\* the calls, no call fails, and once every call made has completed the base,
\* uploads and thumbnails directories all exist.
C23_DirectoriesEnsured ==
    /\ \A p \in Procs : pc[p] # "failed" /\ ~outcome[p].error
    /\ ((\A p \in Procs : pc[p] \in {"idle", "ensured"})
          /\ (\E p \in Procs : pc[p] = "ensured")) =>
         directories = {"base", "uploads", "thumbnails"}

\* C23 witness: both processes have completed their calls, after each of them
\* called mkdir for the base directory and for the uploads directory, and one
\* of them has called ensureDirectoriesExist twice.
C23_Witness ==
    /\ \A p \in Procs : pc[p] = "ensured" /\ {"base", "uploads"} \subseteq outcome[p].made
    /\ \E p \in Procs : outcome[p].calls = 2
    /\ directories = {"base", "uploads", "thumbnails"}

\* ------------------------------------------ claims on the purchase endpoint

\* The last request answered was a purchase; call.result holds its request,
\* its status and the onSaleQuantity it found.
Purchased == call.op = "purchase"

\* The stock is what was there at first less what was sold, and neither is
\* negative.
StockAccounted ==
    /\ db.onSaleQuantity >= 0
    /\ call.sold <= call.stock
    /\ db.onSaleQuantity = call.stock - call.sold

\* C28 as stated: for every interleaving of sale purchase requests with
\* quantity >= 1, the purchase endpoint keeps onSaleQuantity >= 0: a sale
\* purchase of q units succeeds and decrements onSaleQuantity by exactly q
\* only when onSaleQuantity >= q at the time of its update, otherwise it
\* answers 400 and leaves onSaleQuantity unchanged, so the units sold at sale
\* price never exceed the initial onSaleQuantity; a purchase with isOnSale
\* false changes no inventory.
C28_SucceedsOrAnswers400 ==
    /\ StockAccounted
    /\ Purchased =>
         LET q == call.result.quantity
             found == call.result.found
         IN  IF call.result.isOnSale
             THEN IF db.exists /\ found >= q /\ call.result.status = 200
                  THEN db.onSaleQuantity = found - q
                  ELSE call.result.status = 400 /\ db.onSaleQuantity = found
             ELSE call.result.status = 200 /\ db.onSaleQuantity = found

\* C28: for every interleaving of sale purchase requests with quantity >= 1,
\* the purchase endpoint keeps onSaleQuantity >= 0: a sale purchase of q units
\* succeeds and decrements onSaleQuantity by exactly q only when
\* onSaleQuantity >= q at the time of its update; otherwise it answers 400, or
\* 500 when the database reports an error, and leaves onSaleQuantity
\* unchanged, so the units sold at sale price never exceed the initial
\* onSaleQuantity; a purchase with isOnSale false changes no inventory.
C28_SaleStockNeverNegative ==
    /\ StockAccounted
    /\ Purchased =>
         LET q == call.result.quantity
             found == call.result.found
         IN  IF call.result.isOnSale
             THEN /\ call.result.status \in {200, 400, 500}
                  /\ call.result.status = 200 =>
                       (db.exists /\ found >= q /\ db.onSaleQuantity = found - q)
                  /\ call.result.status = 400 =>
                       ((~db.exists \/ found < q) /\ db.onSaleQuantity = found)
                  /\ call.result.status = 500 => db.onSaleQuantity = found
                  /\ call.result.status = 500 => call.failing # {}
             ELSE call.result.status = 200 /\ db.onSaleQuantity = found

\* C28 witness: two sale purchases were posted while the stock covered either
\* of them but not both; the update that ran second found too little,
\* answered 400 and left the stock, which the first had sold out.
C28_Witness ==
    /\ Purchased
    /\ call.result.isOnSale /\ call.result.status = 400
    /\ call.result.posted >= call.result.quantity
    /\ call.result.found < call.result.quantity
    /\ \E p \in Procs : /\ outcome[p].status = 200 /\ outcome[p].isOnSale
                        /\ outcome[p].posted = call.result.posted
    /\ call.stock >= 1 /\ call.sold = call.stock

\* ------------------------------------------------- claims: admin routes

\* The request of process p is a DELETE /products/:id.
Deleting(p) == outcome[p].kind = "delete"

\* The request of process p has been answered.
Answered(p) == pc[p] = "idle" /\ outcome[p].status # 0

\* C30: the admin delete operation removes the row first and only then
\* attempts the deletion of the image: the image step is reached, and files
\* are unlinked, only by a request whose DELETE removed the row.  A missing
\* file or a failed deletion never blocks the operation: once the row is
\* removed the answer is 200 with an imageCleanup, attempted exactly when the
\* product had an image, whatever its success.  A request answered 500 or 404
\* (the row deletion failed, or there is no product) attempted no deletion.
C30_RowFirstThenImage ==
    \A p \in Procs :
        Deleting(p) =>
            /\ pc[p] = "deleteImage" =>
                   outcome[p].updated /\ ~db.exists /\ ~Falsy(outcome[p].product)
            /\ outcome[p].deleted # {} => outcome[p].updated /\ ~db.exists
            /\ Answered(p) /\ outcome[p].updated =>
                   /\ outcome[p].status = 200
                   /\ outcome[p].cleanup.attempted = ~Falsy(outcome[p].product)
            /\ Answered(p) /\ ~outcome[p].updated =>
                   /\ outcome[p].status \in {404, 500}
                   /\ outcome[p].cleanup = NoCleanup
                   /\ outcome[p].deleted = {}

\* A product with an image was deleted, an unlink failed, and the answer is
\* 200 with the failure in imageCleanup.
C30_Witness ==
    \E p \in Procs :
        /\ Deleting(p) /\ Answered(p)
        /\ outcome[p].status = 200
        /\ ~db.exists
        /\ outcome[p].cleanup.attempted
        /\ ~outcome[p].cleanup.success
        /\ outcome[p].cleanup.errors # <<>>

\* The request of process p is an image upload or an image replace.
Uploading(p) == outcome[p].kind \in {"upload", "replace"}

\* No other process has sent a request: the requests of p run one at a time.
Alone(p) == \A q \in Procs \ {p} : outcome[q] = NoRequest

\* The file multer stored for the request of process p.
UploadedFile(p) == getAbsoluteImagePath(UploadNames[p][outcome[p].requests], "original")

\* The UPDATE of the image of the request of process p failed.
UpdateFailed(p) ==
    /\ Answered(p)
    /\ outcome[p].status = 500
    /\ ~Falsy(outcome[p].newPath)
    /\ ~outcome[p].updated

\* The ordering of a single upload or replace request: the previous files go
\* only after the UPDATE went through, and the stored image is never one the
\* request has deleted.
CleanupAfterUpdate(p) ==
    /\ outcome[p].deleted \cap TargetsOf(outcome[p].product) # {} => outcome[p].updated
    /\ UpdateFailed(p) =>
           /\ outcome[p].deleted \cap TargetsOf(outcome[p].product) = {}
           /\ db.image = outcome[p].product
    /\ TargetsOf(db.image) \cap outcome[p].deleted = {}

\* C24 as stated: in the image upload and image replace endpoints the files of
\* the previous image are deleted only after the image of the row has been
\* updated; when the update fails the newly uploaded file is removed, the
\* previous files stay on disk and the image of the row is unchanged; at no
\* step of a single request does the image of the row refer to a file the
\* request has deleted.
C24_UploadRemovedOnFailure ==
    \A p \in Procs :
        Uploading(p) /\ Alone(p) =>
            /\ CleanupAfterUpdate(p)
            /\ UpdateFailed(p) => UploadedFile(p) \notin files

\* C24, amended: as above, but when the update fails the newly uploaded file
\* is removed unless its unlink is refused, in which case it stays on disk.
C24_CleanupOnlyAfterUpdate ==
    \A p \in Procs :
        Uploading(p) /\ Alone(p) =>
            /\ CleanupAfterUpdate(p)
            /\ UpdateFailed(p) =>
                   (UploadedFile(p) \notin files <=> ~outcome[p].refused)

\* The UPDATE of a request on a product with an image on disk failed: the
\* upload is gone, the previous files are there.
C24_Witness ==
    \E p \in Procs :
        /\ Uploading(p) /\ Alone(p)
        /\ UpdateFailed(p)
        /\ UploadedFile(p) \in outcome[p].deleted
        /\ TargetsOf(outcome[p].product) # {}
        /\ TargetsOf(outcome[p].product) \subseteq files

\* The request of process p is a PUT /products/:id/image.
Replacing(p) == outcome[p].kind = "replace"

\* The request of process p went through all its steps and was answered 200
\* without an I/O failure.
Completed(p) == Answered(p) /\ outcome[p].status = 200 /\ ~outcome[p].faulted

\* C27: under every interleaving of two concurrent image replace requests on
\* the product (each reads the row, stores its own distinctly named file,
\* updates the image of the row, then cleans up the image path it read), once
\* both have completed without I/O failures the image of the row refers to a
\* file that is on disk.
C27_PointerSurvivesReplaces ==
    (\A p \in Procs : Replacing(p) /\ Completed(p)) =>
        /\ db.exists => \E p \in Procs : db.image = outcome[p].newPath
        /\ db.exists => getAbsoluteImagePath(extractFilenameFromPath(db.image), "original") \in files

\* Two replace requests have completed, and the one whose update came first
\* found its own upload deleted by the cleanup of the other.
C27_Witness ==
    /\ \A p \in Procs : Replacing(p) /\ Completed(p)
    /\ db.exists
    /\ \E p \in Procs : \E q \in Procs \ {p} :
           /\ outcome[q].product = outcome[p].newPath
           /\ UploadedFile(p) \in outcome[q].deleted
           /\ db.image = outcome[q].newPath
           /\ UploadedFile(q) \in files

\* The request of process p has stored its upload and has not been answered.
UploadInProgress(p) == Uploading(p) /\ pc[p] \in {"updateImage", "replaceImage"}

\* This step is the cleanup of a request of process q that read path as the
\* image of the row: replaceProductImage of an upload or replace request, or
\* deleteProductImage of a delete request.
CleanupOf(q, path) ==
    /\ pc[q] \in {"replaceImage", "deleteImage"}
    /\ pc'[q] = "idle"
    /\ outcome[q].product = path

\* C26: two concurrent image replace requests on the product can interleave
\* so that the cleanup of one deletes the file the other has just uploaded
\* while that other is still in progress (the state of C26_Witness).  It is
\* the only way an upload is lost under a request in progress: the file goes
\* either in the request's own cleanupFailedUpload after a failed UPDATE, or
\* in the cleanup of another request that read the upload's path as the image
\* of the row, which the request had stored there already.
C26_UploadLostToOtherCleanup ==
    [][\A p \in Procs :
          UploadInProgress(p) /\ UploadedFile(p) \in files /\ UploadedFile(p) \notin files' =>
              \/ pc[p] = "updateImage" /\ pc'[p] = "idle" /\ outcome'[p].status = 500
              \/ \E q \in Procs \ {p} :
                     /\ CleanupOf(q, outcome[p].newPath)
                     /\ outcome[p].updated]_vars

\* The replace request of p has updated the row and waits for its cleanup;
\* the replace request of q read p's path, stored its own, and its cleanup
\* has deleted p's upload.
C26_Witness ==
    \E p \in Procs : \E q \in Procs \ {p} :
        /\ Replacing(p) /\ Replacing(q)
        /\ pc[p] = "replaceImage"
        /\ Answered(q)
        /\ outcome[q].product = outcome[p].newPath
        /\ UploadedFile(p) \in outcome[q].deleted
        /\ UploadedFile(p) \notin files

\* The request of process p replaced the image of the row by a different
\* path: an image upload, an image replace or a product update with an image
\* field that went through.
ImageReplaced(p) ==
    /\ outcome[p].kind \in {"upload", "replace", "update"}
    /\ outcome[p].updated
    /\ ~Falsy(outcome[p].product)
    /\ outcome[p].newPath # outcome[p].product

\* C25: whenever the image of the row is replaced by a different path through
\* an admin operation (image upload, image replace, or the product update
\* with an image field), the deletion of the files of the previous image is
\* attempted: a request that completed without I/O failures leaves none of
\* the files of the image it replaced on disk.
C25_PreviousFilesCleaned ==
    \A p \in Procs :
        Alone(p) /\ Completed(p) /\ ImageReplaced(p) =>
            TargetsOf(outcome[p].product) \cap files = {}

\* What the code does keep: the same, for the two image routes only.
C25_ImageRoutesClean ==
    \A p \in Procs :
        Alone(p) /\ Completed(p) /\ ImageReplaced(p) /\ Uploading(p) =>
            TargetsOf(outcome[p].product) \cap files = {}

====
